---- MODULE Spec2Model ----
(***************************************************************************)
(* Model of hostathome/cli.                                                *)
(*                                                                         *)
(* The registry cache (src/internal/registry/registry.go): the in-process  *)
(* map gameCache, the on-disk cache files with their modification times,   *)
(* and the operations GetGame, fetchWithCache, ListGames, fetchGameIndex.  *)
(* The commands of src/cmd/hostathome/main.go that manage a server         *)
(* (install, run, stop, remove, uninstall) over the containers, the images *)
(* and the server directories (src/internal/docker/docker.go), the daily   *)
(* update check (src/internal/version/version.go), the extraction of the   *)
(* default configuration (CopyDefaultConfig of registry.go) and the        *)
(* progress spinner (src/internal/ui/ui.go).                               *)
(*                                                                         *)
(* Each part is followed by a specification of its own: Spec and SpecList  *)
(* for the registry cache, SpecConc for two processes that interleave in   *)
(* fetchWithCache, SpecNames for the names given on the command line,      *)
(* SpecDocker for the server commands, SpecVersion for the update check,   *)
(* SpecEngine for the operations of package docker, SpecPorts for the      *)
(* ports RunContainer publishes, SpecExtract for CopyDefaultConfig and     *)
(* SpecSpinner for the Spinner.                                            *)
(*                                                                         *)
(* The remote registry, the clock and the outcome of a cache write are the *)
(* environment: every operation draws the response it receives and the     *)
(* outcome of its write from the sets below.  One CLI process is followed  *)
(* through its lifetime (its gameCache is state); other CLI processes are  *)
(* one-shot invocations that share the cache directory.                    *)
(*                                                                         *)
(* Time is counted in minutes.                                             *)
(***************************************************************************)
EXTENDS Integers, Sequences, FiniteSets, TLC

\* ------------------------------------------------------------------ bounds
Names == {"a", "ab"}          \* game names that are requested
MaxTime == 60                \* the clock stops advancing once it is here
TickStep == 30               \* minutes that pass in one Tick

\* -------------------------------------------------------- program constants
cacheTTL == 60               \* registry.go:26, 1 * time.Hour, in minutes

\* ------------------------------------------------------------------- bytes
\* A byte string is represented by what it holds: its format, the names it
\* lists and the revision of the definition it serialises.
Bytes(fmt, names, rev) == [fmt |-> fmt, names |-> names, rev |-> rev]
EmptyBytes == Bytes("empty", <<>>, 0)              \* zero bytes
Garbage == Bytes("garbage", <<>>, 0)               \* bytes no parser accepts
GameYaml(n, r) == Bytes("game-yaml", <<n>>, r)     \* games/<n>.yaml, revision r
IndexYaml(l) == Bytes("index-yaml", l, 0)          \* index.yaml, games: l

Revs == {1, 2}
\* the lists of names the remote index serves
IndexLists == {<<>>, <<"a">>, <<"a", "ab">>, <<"ab", "a">>, <<"a", "a">>}

\* ------------------------------------------------------------- definitions
Game(n, r) == [name |-> n, rev |-> r]
NoGame == Game("", -1)       \* no entry in gameCache / nil *Game
ZeroGame == Game("", 0)      \* the zero value of struct Game

\* yaml.Unmarshal(data, &game): a definition document gives its definition,
\* an empty document and a document with only unknown keys leave the zero
\* value and report no error, anything else is an error.
yamlUnmarshalGame(data) ==
    CASE data.fmt = "game-yaml" -> [ok |-> TRUE, game |-> Game(data.names[1], data.rev)]
      [] data.fmt \in {"empty", "index-yaml"} -> [ok |-> TRUE, game |-> ZeroGame]
      [] OTHER -> [ok |-> FALSE, game |-> NoGame]

\* yaml.Unmarshal(data, &indexFile)
yamlUnmarshalIndex(data) ==
    CASE data.fmt = "index-yaml" -> [ok |-> TRUE, index |-> data.names]
      [] data.fmt \in {"empty", "game-yaml"} -> [ok |-> TRUE, index |-> <<>>]
      [] OTHER -> [ok |-> FALSE, index |-> <<>>]

\* json.Marshal(indexFile.Games)
jsonMarshal(l) == Bytes("json", l, 0)

\* json.Unmarshal(data, &index)
jsonUnmarshal(data) ==
    IF data.fmt = "json" THEN [ok |-> TRUE, index |-> data.names]
                         ELSE [ok |-> FALSE, index |-> <<>>]

\* ------------------------------------------------------------------- files
IndexKey == "index.json"
Keys == Names \cup {IndexKey}
\* getCacheDir(): the cache directory, or "" when it cannot be determined
Dirs == {"cache", ""}
Paths == Dirs \X Keys

File(data, t) == [exists |-> TRUE, data |-> data, modTime |-> t]
NoFile == [exists |-> FALSE, data |-> EmptyBytes, modTime |-> 0]

\* ------------------------------------------------------------- environment
\* What one HTTP GET can come to.
Resp(err, status, body) == [err |-> err, status |-> status, body |-> body]
NoResp == Resp("norequest", 0, EmptyBytes)
FailResps ==
    { \* client.Get returned an error: no connection, or the client's Timeout
      \* expired before the response arrived
      Resp("transport", 0, EmptyBytes),
      Resp("none", 404, EmptyBytes),
      Resp("none", 500, EmptyBytes),
      \* io.ReadAll returned an error: the connection broke, or the client's
      \* Timeout (which also bounds the reading of the body) expired
      Resp("readbody", 200, EmptyBytes) }
GameResps(n) ==
    FailResps \cup { Resp("none", 200, b) : b \in {GameYaml(n, r) : r \in Revs} \cup {Garbage} }
\* The listing commands are followed with one revision of each definition
\* and without the statuses and read errors that GetGame is followed with.
ListGameResps(n) ==
    { Resp("transport", 0, EmptyBytes), Resp("none", 404, EmptyBytes) }
        \cup { Resp("none", 200, b) : b \in {GameYaml(n, 1), Garbage} }
IndexResps ==
    FailResps \cup { Resp("none", 200, b) : b \in {IndexYaml(l) : l \in IndexLists} \cup {Garbage} }

\* What os.MkdirAll followed by os.WriteFile can come to.
WriteOutcomes == {"ok", "mkdirfail", "truncated"}

\* ------------------------------------------------------------------- names
\* A name given on the command line is followed by its characters.
LongName == "aaaaaaaaaaaaaaaaaaaaaaaaaaaaaaaaaaaaaaaaaaaaaaaaaaaaaaaaaaaaaaaa"
\* the names that are given: those of games, and names that are not
RawNames == Names \cup {"", "../a", "a/b", LongName}
\* a name of 63 characters, and more names of one kind and the other
FullName == "aaaaaaaaaaaaaaaaaaaaaaaaaaaaaaaaaaaaaaaaaaaaaaaaaaaaaaaaaaaaaaa"
MoreNames == RawNames \cup {FullName, "A_b-1", "a.b", ".a", "a b"}
Chars(n) ==
    CASE n = "a" -> <<"a">>
      [] n = "ab" -> <<"a", "b">>
      [] n = "" -> <<>>
      [] n = "../a" -> <<".", ".", "/", "a">>
      [] n = "a/b" -> <<"a", "/", "b">>
      [] n = LongName -> [i \in 1..64 |-> "a"]
      [] n = FullName -> [i \in 1..63 |-> "a"]
      [] n = "A_b-1" -> <<"A", "_", "b", "-", "1">>
      [] n = "a.b" -> <<"a", ".", "b">>
      [] n = ".a" -> <<".", "a">>
      [] n = "a b" -> <<"a", " ", "b">>

maxNameLen == 63             \* registry.go:37, len(gameName) > 63
\* the characters of ^[a-zA-Z0-9_-]+$
NameChars ==
    { "a", "b", "c", "d", "e", "f", "g", "h", "i", "j", "k", "l", "m",
      "n", "o", "p", "q", "r", "s", "t", "u", "v", "w", "x", "y", "z",
      "A", "B", "C", "D", "E", "F", "G", "H", "I", "J", "K", "L", "M",
      "N", "O", "P", "Q", "R", "S", "T", "U", "V", "W", "X", "Y", "Z",
      "0", "1", "2", "3", "4", "5", "6", "7", "8", "9", "_", "-" }

\* strings.HasPrefix(s, p) and strings.Contains(s, p)
HasPrefix(s, p) == Len(s) >= Len(p) /\ SubSeq(s, 1, Len(p)) = p
Contains(s, p) == \E i \in 0..(Len(s) - Len(p)) : SubSeq(s, i + 1, i + Len(p)) = p

\* validateGameName(gameName): the error it returns, "none" for nil
validateGameName(s) ==
    IF s = <<>> THEN "empty"
    ELSE IF Len(s) > maxNameLen THEN "toolong"
    ELSE IF \E i \in 1..Len(s) : s[i] \notin NameChars THEN "badchars"
    ELSE IF Contains(s, <<".", ".">>) \/ HasPrefix(s, <<"/">>) \/ HasPrefix(s, <<".">>)
    THEN "traversal"
    ELSE "none"

\* A path is the sequence of its segments.  config.GetCacheDir():
\* filepath.Join(homeDir, ".hostathome", "cache/registry")
cacheDir == << <<"~">>, <<".hostathome">>, <<"cache">>, <<"registry">> >>

\* the segments between the separators of a path that is written with "/"
Split(s) ==
    LET cuts == {0, Len(s) + 1} \cup { i \in 1..Len(s) : s[i] = "/" }
        cut(k) == CHOOSE x \in cuts : Cardinality({ y \in cuts : y < x }) = k - 1
    IN  [k \in 1..(Cardinality(cuts) - 1) |-> SubSeq(s, cut(k) + 1, cut(k + 1) - 1)]

\* filepath.Clean, applied by filepath.Join: empty segments and "." are
\* dropped, ".." drops the segment before it
RECURSIVE Clean(_, _)
Clean(done, todo) ==
    IF todo = <<>> THEN done
    ELSE LET seg == Head(todo)
         IN  IF seg = <<>> \/ seg = <<".">> THEN Clean(done, Tail(todo))
             ELSE IF seg = <<".", ".">>
             THEN Clean(IF done = <<>> THEN <<>> ELSE SubSeq(done, 1, Len(done) - 1),
                        Tail(todo))
             ELSE Clean(Append(done, seg), Tail(todo))

\* cacheFile := filepath.Join(getCacheDir(), name+".yaml")
cacheFileOf(n) == Clean(cacheDir, Split(Chars(n) \o <<".", "y", "a", "m", "l">>))
NamePaths == { cacheFileOf(n) : n \in RawNames }

\* ------------------------------------------------------ processes at once
Procs == {"p1", "p2"}
\* where a process is in fetchWithCache, the name it resolves, the body it
\* received, and what it returned: the error, the bytes and their origin
Proc(pc, name, body, err, data, src) ==
    [pc |-> pc, name |-> name, body |-> body, err |-> err, data |-> data, src |-> src]
IdleProc == Proc("idle", "", EmptyBytes, "none", EmptyBytes, "")

\* ------------------------------------------------------------ the servers
NoServerDir == [dirs |-> {}, files |-> {}]

\* the files CopyDefaultConfig looks after in ./<game>-server/configs, and
\* the content of a file that does not exist
ConfigNames == {"config.yaml", "mods.yaml"}
Absent == "absent"

\* ------------------------------------------------------------ the spinner
\* NewSpinner(message): running is false and done, a channel with a buffer
\* of one, is empty
NewSpinner == [running |-> FALSE, done |-> 0]
\* no call was made yet, and stdout is not looked at yet
NoScript == [calls |-> 0, lastCall |-> "none", ended |-> FALSE, stdout |-> "unset"]

VARIABLES
    now,          \* the clock
    files,        \* the file at each path
    gameCache,    \* the in-process map of the followed process
    listPc,       \* "idle", or "loop" inside ListGames' loop
    listIndex,    \* ListGames: index
    listGames,    \* ListGames: games
    listTrace,    \* what GetGame returned for each name of index so far
    last,         \* the last call: its inputs, what it did, what it returned
    procs,        \* SpecConc: where each of two processes is in fetchWithCache
    pathFiles,    \* SpecNames: the file at each path a name resolves to
    containers,   \* SpecDocker: the containers of the engine, newest first
    images,       \* SpecDocker: the images of the engine
    serverDirs,   \* SpecDocker: the directory ./<game>-server of each game
    versionCheck, \* SpecVersion: the file ~/.hostathome/cache/version_check
    checks,       \* SpecVersion: the times the release endpoint was queried
    configFiles,  \* SpecExtract: the content of each file of ./a-server/configs
    tempContainers, \* SpecExtract: the temporary containers the engine holds
    spinner,      \* SpecSpinner: the fields running and done of one Spinner
    goroutines,   \* SpecSpinner: the variable i of each animation goroutine
    script        \* SpecSpinner: the calls the caller has made

registryVars == <<files, gameCache, listPc, listIndex, listGames, listTrace>>
dockerVars == <<containers, images, serverDirs>>
versionVars == <<versionCheck, checks>>
extractVars == <<configFiles, tempContainers>>
spinnerVars == <<spinner, goroutines, script>>
\* what the operations of the registry cache leave alone
elsewhere == <<procs, pathFiles, dockerVars, versionVars, extractVars, spinnerVars>>

vars == <<now, last, registryVars, procs, pathFiles, dockerVars, versionVars,
         extractVars, spinnerVars>>


\* ------------------------------------------------------- fetch-with-cache
\* The result of a fetch: the error kind ("none" on success), the bytes, the
\* files afterwards, the number of HTTP requests issued, the number of reads
\* of the cache file, and whether a cache write was attempted.
Fetched(err, data, fs, net, reads, wrote) ==
    [err |-> err, data |-> data, files |-> fs, net |-> net, reads |-> reads, wrote |-> wrote]

\* (mutant) the comparison with cacheTTL reversed
IsFresh_Reversed(f, t) == f.exists /\ t - f.modTime > cacheTTL

\* time.Since(info.ModTime()) < cacheTTL, after os.Stat succeeded
IsFresh(f, t) == f.exists /\ t - f.modTime < cacheTTL

\* (mutant) an existing cache file is not overwritten
SaveToCache_KeepOld(fs, t, path, data, wr) ==
    IF path[1] = "" \/ fs[path].exists THEN fs
    ELSE CASE wr = "ok" -> [fs EXCEPT ![path] = File(data, t)]
           [] wr = "truncated" -> [fs EXCEPT ![path] = File(EmptyBytes, t)]
           [] OTHER -> fs

\* os.MkdirAll(dir) then os.WriteFile(cacheFile, data): the file is replaced,
\* or left alone when the directory or the file cannot be opened, or left
\* truncated when the write fails after the file was opened with O_TRUNC.
\* Nothing is written when getCacheDir() returned "".
SaveToCache(fs, t, path, data, wr) ==
    IF path[1] = "" THEN fs
    ELSE CASE wr = "ok" -> [fs EXCEPT ![path] = File(data, t)]
           [] wr = "truncated" -> [fs EXCEPT ![path] = File(EmptyBytes, t)]
           [] OTHER -> fs

\* (mutants) fetchWithCache with one of its fallbacks changed: a 404 falls
\* back to the cache like any other status; a transport failure does not fall
\* back to the cache; a status other than 200 and 404 does not fall back
fetchWithCache_Variant(fs, t, name, dir, resp, wr, uniform404, offline, status) ==
    LET cacheFile == <<dir, name>>
        f == fs[cacheFile]
    IN  IF IsFresh(f, t)
        THEN Fetched("none", f.data, fs, 0, 1, FALSE)
        ELSE IF resp.err = "transport"
        THEN IF f.exists /\ offline THEN Fetched("none", f.data, fs, 1, 1, FALSE)
                         ELSE Fetched("transport", EmptyBytes, fs, 1, 0, FALSE)
        ELSE IF resp.status = 404 /\ ~uniform404
        THEN Fetched("notfound", EmptyBytes, fs, 1, 0, FALSE)
        ELSE IF resp.status # 200
        THEN IF f.exists /\ status THEN Fetched("none", f.data, fs, 1, 1, FALSE)
                         ELSE Fetched("status", EmptyBytes, fs, 1, 0, FALSE)
        ELSE IF resp.err = "readbody"
        THEN Fetched("readbody", EmptyBytes, fs, 1, 0, FALSE)
        ELSE Fetched("none", resp.body, SaveToCache(fs, t, cacheFile, resp.body, wr),
                     1, 0, dir # "")
fetchWithCache_Uniform404(fs, t, name, dir, resp, wr) ==
    fetchWithCache_Variant(fs, t, name, dir, resp, wr, TRUE, TRUE, TRUE)
fetchWithCache_NoOfflineFallback(fs, t, name, dir, resp, wr) ==
    fetchWithCache_Variant(fs, t, name, dir, resp, wr, FALSE, FALSE, TRUE)
fetchWithCache_NoStatusFallback(fs, t, name, dir, resp, wr) ==
    fetchWithCache_Variant(fs, t, name, dir, resp, wr, FALSE, TRUE, FALSE)

\* (mutant) fetchWithCache returning the error of a failed cache write
fetchWithCache_SurfaceWriteError(fs, t, name, dir, resp, wr) ==
    LET r == fetchWithCache_Variant(fs, t, name, dir, resp, wr, FALSE, TRUE, TRUE)
    IN  IF r.wrote /\ wr # "ok"
        THEN Fetched("write", EmptyBytes, r.files, r.net, r.reads, TRUE)
        ELSE r

\* (mutant) fetchWithCache that writes to the cache only bytes that parse
fetchWithCache_ParseBeforeSave(fs, t, name, dir, resp, wr) ==
    LET r == fetchWithCache_Variant(fs, t, name, dir, resp, wr, FALSE, TRUE, TRUE)
    IN  IF r.wrote /\ ~yamlUnmarshalGame(resp.body).ok
        THEN Fetched(r.err, r.data, fs, r.net, r.reads, FALSE)
        ELSE r

\* fetchWithCache(name), with dir the value of getCacheDir(), resp the answer
\* an HTTP request gets and wr the outcome of a cache write
fetchWithCache(fs, t, name, dir, resp, wr) ==
    LET cacheFile == <<dir, name>>
        f == fs[cacheFile]
    IN  IF IsFresh(f, t)
        THEN Fetched("none", f.data, fs, 0, 1, FALSE)
        ELSE IF resp.err = "transport"
        THEN IF f.exists THEN Fetched("none", f.data, fs, 1, 1, FALSE)
                         ELSE Fetched("transport", EmptyBytes, fs, 1, 0, FALSE)
        ELSE IF resp.status = 404
        THEN Fetched("notfound", EmptyBytes, fs, 1, 0, FALSE)
        ELSE IF resp.status # 200
        THEN IF f.exists THEN Fetched("none", f.data, fs, 1, 1, FALSE)
                         ELSE Fetched("status", EmptyBytes, fs, 1, 0, FALSE)
        ELSE IF resp.err = "readbody"
        THEN Fetched("readbody", EmptyBytes, fs, 1, 0, FALSE)
        ELSE Fetched("none", resp.body, SaveToCache(fs, t, cacheFile, resp.body, wr),
                     1, 0, dir # "")

\* --------------------------------------------------------------- GetGame
\* The result of GetGame: the error kind, the definition, the map and the
\* files afterwards, and the fetch it made (NoFetch when it made none).
NoFetch(fs) == Fetched("none", EmptyBytes, fs, 0, 0, FALSE)
Got(err, game, cache, fetch) ==
    [err |-> err, game |-> game, cache |-> cache, fetch |-> fetch]

\* (mutant) GetGame without the look-up in gameCache
GetGameIn_NoMemo(cache, fs, t, name, dir, resp, wr) ==
    LET r == fetchWithCache(fs, t, name, dir, resp, wr)
        p == yamlUnmarshalGame(r.data)
    IN  IF r.err # "none" THEN Got(r.err, NoGame, cache, r)
        ELSE IF ~p.ok THEN Got("parse", NoGame, cache, r)
        ELSE Got("none", p.game, [cache EXCEPT ![name] = p.game], r)

\* (mutant) GetGame that stores the zero value when the bytes do not parse
GetGameIn_StoreOnFailure(cache, fs, t, name, dir, resp, wr) ==
    IF cache[name] # NoGame
    THEN Got("none", cache[name], cache, NoFetch(fs))
    ELSE LET r == fetchWithCache(fs, t, name, dir, resp, wr)
             p == yamlUnmarshalGame(r.data)
         IN  IF r.err # "none" THEN Got(r.err, NoGame, cache, r)
             ELSE IF ~p.ok THEN Got("parse", NoGame, [cache EXCEPT ![name] = ZeroGame], r)
             ELSE Got("none", p.game, [cache EXCEPT ![name] = p.game], r)

\* GetGame(name) against the map cache, the files fs and the clock t
GetGameIn(cache, fs, t, name, dir, resp, wr) ==
    IF cache[name] # NoGame
    THEN Got("none", cache[name], cache, NoFetch(fs))
    ELSE LET r == fetchWithCache(fs, t, name, dir, resp, wr)
             p == yamlUnmarshalGame(r.data)
         IN  IF r.err # "none" THEN Got(r.err, NoGame, cache, r)
             ELSE IF ~p.ok THEN Got("parse", NoGame, cache, r)
             ELSE Got("none", p.game, [cache EXCEPT ![name] = p.game], r)

\* ------------------------------------------------------------ the record
\* of the last call: who called what, what it found, received and returned.
Call(op, proc, name, dir, hit, before, fetch, resp, wr, err, game, games) ==
    [op |-> op, proc |-> proc, name |-> name, dir |-> dir, hit |-> hit,
     before |-> before, net |-> fetch.net, reads |-> fetch.reads, ferr |-> fetch.err,
     resp |-> IF fetch.net > 0 THEN resp ELSE NoResp,
     wr |-> IF fetch.wrote THEN wr ELSE "nowrite",
     err |-> err, data |-> fetch.data, game |-> game, games |-> games,
     index |-> <<>>, trace |-> <<>>]
NoCall(op) ==
    Call(op, "", "", "", FALSE, NoFile, NoFetch(files), NoResp, "ok", "none", NoGame, <<>>)

EmptyCache == [n \in Names |-> NoGame]

Init ==
    /\ now = 0
    /\ files = [p \in Paths |-> NoFile]
    /\ gameCache = EmptyCache
    /\ listPc = "idle"
    /\ listIndex = <<>>
    /\ listGames = <<>>
    /\ listTrace = <<>>
    /\ last = NoCall("start")
    /\ procs = [p \in Procs |-> IdleProc]
    /\ pathFiles = [p \in NamePaths |-> NoFile]
    /\ containers = <<>>
    /\ images = {}
    /\ serverDirs = [g \in Names |-> NoServerDir]
    /\ versionCheck = NoFile
    /\ checks = <<>>
    /\ configFiles = [f \in ConfigNames |-> Absent]
    /\ tempContainers = 0
    /\ spinner = NewSpinner
    /\ goroutines = <<>>
    /\ script = NoScript

\* What a call can meet: the value of getCacheDir(), the answer to its HTTP
\* request, the outcome of its cache write (drawn only when a write can happen).
Inputs(resps) ==
    { in \in [dir : Dirs, resp : resps, wr : WriteOutcomes] :
         \/ in.wr = "ok"
         \/ in.dir # "" /\ in.resp.status = 200 /\ in.resp.err = "none" }

\* The listing commands are followed with the cache directory available,
\* and the writes of definitions either succeed or leave the file alone.
ListInputs(resps) == { in \in Inputs(resps) : in.dir # "" }
ListGameInputs(n) == { in \in ListInputs(ListGameResps(n)) : in.wr # "truncated" }

\* GetGame(name) called by a command of the followed process
GetGame(name) ==
    /\ listPc = "idle"
    /\ \E in \in Inputs(GameResps(name)) :
         LET g == GetGameIn(gameCache, files, now, name, in.dir, in.resp, in.wr)
             hit == gameCache[name] # NoGame
         IN  /\ gameCache' = g.cache
             /\ files' = g.fetch.files
             /\ last' = Call("GetGame", "cli", name, IF hit THEN "" ELSE in.dir, hit,
                             IF hit THEN NoFile ELSE files[<<in.dir, name>>],
                             g.fetch, in.resp, in.wr, g.err, g.game, <<>>)
    /\ UNCHANGED <<now, listPc, listIndex, listGames, listTrace>>
    /\ UNCHANGED elsewhere

\* GetGame(name) in another CLI process, which starts with an empty map and
\* exits after its command
OtherGetGame(name) ==
    /\ \E in \in Inputs(GameResps(name)) :
         LET g == GetGameIn(EmptyCache, files, now, name, in.dir, in.resp, in.wr)
         IN  /\ files' = g.fetch.files
             /\ files' # files
             /\ last' = NoCall("other")
    /\ UNCHANGED <<now, gameCache, listPc, listIndex, listGames, listTrace>>
    /\ UNCHANGED elsewhere

\* -------------------------------------------------------- fetchGameIndex
\* The result of fetchGameIndex: the error kind, the list of names, and the
\* fetch it made.
Indexed(err, index, fetch) == [err |-> err, index |-> index, fetch |-> fetch]

\* The cached index is used when it parses as JSON and is not empty
\* (err == nil && len(index) > 0)
Usable(data) == jsonUnmarshal(data).ok /\ Len(jsonUnmarshal(data).index) > 0

fetchGameIndex(fs, t, dir, resp, wr) ==
    LET cacheFile == <<dir, IndexKey>>
        f == fs[cacheFile]
        cached == jsonUnmarshal(f.data).index
        \* os.ReadFile succeeded, len(data) > 0, the JSON parses, len(index) > 0
        fallback == f.exists /\ f.data # EmptyBytes /\ Usable(f.data)
        y == yamlUnmarshalIndex(resp.body)
    IN  IF IsFresh(f, t) /\ Usable(f.data)
        THEN Indexed("none", cached, Fetched("none", f.data, fs, 0, 1, FALSE))
        ELSE LET reads == IF IsFresh(f, t) THEN 1 ELSE 0 IN
        IF resp.err = "transport"
        THEN IF fallback
             THEN Indexed("none", cached, Fetched("none", f.data, fs, 1, reads + 1, FALSE))
             ELSE Indexed("transport", <<>>,
                          Fetched("transport", EmptyBytes, fs, 1, reads + (IF f.exists THEN 1 ELSE 0), FALSE))
        ELSE IF resp.status # 200
        THEN IF fallback
             THEN Indexed("none", cached, Fetched("none", f.data, fs, 1, reads + 1, FALSE))
             ELSE Indexed("status", <<>>,
                          Fetched("status", EmptyBytes, fs, 1, reads + (IF f.exists THEN 1 ELSE 0), FALSE))
        ELSE IF resp.err = "readbody"
        THEN Indexed("readbody", <<>>, Fetched("readbody", EmptyBytes, fs, 1, reads, FALSE))
        ELSE IF ~y.ok
        THEN Indexed("parse", <<>>, Fetched("parse", resp.body, fs, 1, reads, FALSE))
        ELSE Indexed("none", y.index,
                     Fetched("none", resp.body,
                             SaveToCache(fs, t, cacheFile, jsonMarshal(y.index), wr),
                             1, reads, dir # ""))

\* -------------------------------------------------------------- ListGames
\* ListGames, up to its loop: the index is fetched; an error is returned
\* to the caller, otherwise the loop over the names starts
ListStart ==
    /\ listPc = "idle"
    /\ \E in \in ListInputs(IndexResps) :
         LET x == fetchGameIndex(files, now, in.dir, in.resp, in.wr)
         IN  /\ files' = x.fetch.files
             /\ listPc' = IF x.err = "none" THEN "loop" ELSE "idle"
             /\ listIndex' = x.index
             /\ last' = Call(IF x.err = "none" THEN "fetchGameIndex" ELSE "ListGames",
                             "cli", IndexKey, in.dir, FALSE, files[<<in.dir, IndexKey>>],
                             x.fetch, in.resp, in.wr, x.err, NoGame, <<>>)
    /\ listGames' = <<>>
    /\ listTrace' = <<>>
    /\ UNCHANGED <<now, gameCache>>
    /\ UNCHANGED elsewhere

\* (mutant) the loop without its continue
appendGame_Always(games, g) == Append(games, g.game)

\* The body of the loop: games = append(games, *game), or continue
appendGame(games, g) ==
    IF g.err # "none" THEN games ELSE Append(games, g.game)

\* One turn of the loop: GetGame(name) for the next name of the index; the
\* definition is appended, or the name is skipped when GetGame failed
ListStep ==
    /\ listPc = "loop"
    /\ Len(listTrace) < Len(listIndex)
    /\ LET name == listIndex[Len(listTrace) + 1] IN
       \E in \in ListGameInputs(name) :
         LET g == GetGameIn(gameCache, files, now, name, in.dir, in.resp, in.wr)
             hit == gameCache[name] # NoGame
         IN  /\ gameCache' = g.cache
             /\ files' = g.fetch.files
             /\ listGames' = appendGame(listGames, g)
             /\ listTrace' = Append(listTrace, g.game)
             /\ last' = Call("GetGame", "cli", name, IF hit THEN "" ELSE in.dir, hit,
                             IF hit THEN NoFile ELSE files[<<in.dir, name>>],
                             g.fetch, in.resp, in.wr, g.err, g.game, <<>>)
    /\ UNCHANGED <<now, listPc, listIndex>>
    /\ UNCHANGED elsewhere

\* The loop is over: ListGames returns games and no error
ListReturn ==
    /\ listPc = "loop"
    /\ Len(listTrace) = Len(listIndex)
    /\ listPc' = "idle"
    /\ last' = [NoCall("ListGames") EXCEPT !.proc = "cli", !.games = listGames,
                                            !.index = listIndex, !.trace = listTrace]
    /\ listIndex' = <<>>
    /\ listGames' = <<>>
    /\ listTrace' = <<>>
    /\ UNCHANGED <<now, files, gameCache>>
    /\ UNCHANGED elsewhere

\* The followed process exits and a new one starts: gameCache is empty again
Exit ==
    /\ listPc = "idle"
    /\ gameCache # EmptyCache
    /\ gameCache' = EmptyCache
    /\ last' = NoCall("exit")
    /\ UNCHANGED <<now, files, listPc, listIndex, listGames, listTrace>>
    /\ UNCHANGED elsewhere

\* Time passes
Tick ==
    /\ now < MaxTime
    /\ now' = now + TickStep
    /\ last' = NoCall("tick")
    /\ UNCHANGED <<files, gameCache, listPc, listIndex, listGames, listTrace>>
    /\ UNCHANGED elsewhere

\* Commands that resolve one game (install, run, stop, ...), in the followed
\* process and in others
Next ==
    \/ \E n \in Names : GetGame(n)
    \/ \E n \in Names : OtherGetGame(n)
    \/ Exit
    \/ Tick

Spec == Init /\ [][Next]_vars

\* The commands that list the games (list, doctor)
NextList ==
    \/ ListStart
    \/ ListStep
    \/ ListReturn
    \/ Exit
    \/ Tick

SpecList == Init /\ [][NextList]_vars

TypeOK ==
    /\ now \in Nat
    /\ listPc \in {"idle", "loop"}

\* ===================================================================
\* Two processes in fetchWithCache at once (specification SpecConc)
\* ===================================================================
\* fetchWithCache is followed call by call of the operating system: os.Stat,
\* os.ReadFile, the HTTP request, and the two halves of os.WriteFile (the
\* file is opened with O_TRUNC, then the bytes are written).  The cache
\* directory is available and the writes succeed once the file is open.
ConcResps(n) ==
    { Resp("transport", 0, EmptyBytes), Resp("none", 404, EmptyBytes) }
        \cup { Resp("none", 200, GameYaml(n, r)) : r \in Revs }

ConcPath(p) == <<"cache", procs[p].name>>

\* os.Stat(cacheFile) and the comparison of its age with cacheTTL
ConcStat(p, name) ==
    /\ procs[p].pc = "idle"
    /\ procs' = [procs EXCEPT ![p] =
                   Proc(IF IsFresh(files[<<"cache", name>>], now) THEN "read" ELSE "get",
                        name, EmptyBytes, "none", EmptyBytes, "")]
    /\ UNCHANGED <<now, last, registryVars, pathFiles, dockerVars, versionVars, extractVars, spinnerVars>>

\* os.ReadFile(cacheFile), of a fresh file or as the fallback of a request
ConcRead(p) ==
    /\ procs[p].pc \in {"read", "fallback"}
    /\ LET f == files[ConcPath(p)]
       IN  procs' = [procs EXCEPT ![p] =
                       IF f.exists
                       THEN Proc("done", @.name, @.body, "none", f.data, "cache")
                       ELSE Proc("done", @.name, @.body, @.err, EmptyBytes, "")]
    /\ UNCHANGED <<now, last, registryVars, pathFiles, dockerVars, versionVars, extractVars, spinnerVars>>

\* getHTTPClient().Get(url) and io.ReadAll(resp.Body)
ConcGet(p) ==
    /\ procs[p].pc = "get"
    /\ \E resp \in ConcResps(procs[p].name) :
         procs' = [procs EXCEPT ![p] =
                     IF resp.err = "transport"
                     THEN Proc("fallback", @.name, EmptyBytes, "transport", EmptyBytes, "")
                     ELSE IF resp.status = 404
                     THEN Proc("done", @.name, EmptyBytes, "notfound", EmptyBytes, "")
                     ELSE Proc("open", @.name, resp.body, "none", EmptyBytes, "")]
    /\ UNCHANGED <<now, last, registryVars, pathFiles, dockerVars, versionVars, extractVars, spinnerVars>>

\* os.MkdirAll(dir) and the first half of os.WriteFile(cacheFile, data):
\* the file is created or truncated; a failure is ignored and the bytes
\* received are returned
ConcOpen(p) ==
    /\ procs[p].pc = "open"
    /\ \E wr \in {"ok", "mkdirfail"} :
         IF wr = "ok"
         THEN /\ files' = [files EXCEPT ![ConcPath(p)] = File(EmptyBytes, now)]
              /\ procs' = [procs EXCEPT ![p].pc = "write"]
         ELSE /\ files' = files
              /\ procs' = [procs EXCEPT ![p] =
                             Proc("done", @.name, @.body, "none", @.body, "network")]
    /\ UNCHANGED <<now, last, gameCache, listPc, listIndex, listGames, listTrace>>
    /\ UNCHANGED <<pathFiles, dockerVars, versionVars, extractVars, spinnerVars>>

\* the second half of os.WriteFile: the bytes are written and the file is
\* closed; fetchWithCache returns the bytes received
ConcWrite(p) ==
    /\ procs[p].pc = "write"
    /\ files' = [files EXCEPT ![ConcPath(p)] = File(procs[p].body, now)]
    /\ procs' = [procs EXCEPT ![p] =
                   Proc("done", @.name, @.body, "none", @.body, "network")]
    /\ UNCHANGED <<now, last, gameCache, listPc, listIndex, listGames, listTrace>>
    /\ UNCHANGED <<pathFiles, dockerVars, versionVars, extractVars, spinnerVars>>

\* the process ends; another one can start
ConcExit(p) ==
    /\ procs[p].pc = "done"
    /\ procs' = [procs EXCEPT ![p] = IdleProc]
    /\ UNCHANGED <<now, last, registryVars, pathFiles, dockerVars, versionVars, extractVars, spinnerVars>>

NextConc ==
    \/ \E p \in Procs, n \in Names : ConcStat(p, n)
    \/ \E p \in Procs : ConcRead(p)
    \/ \E p \in Procs : ConcGet(p)
    \/ \E p \in Procs : ConcOpen(p)
    \/ \E p \in Procs : ConcWrite(p)
    \/ \E p \in Procs : ConcExit(p)
    \/ Tick

SpecConc == Init /\ [][NextConc]_vars

\* ===================================================================
\* The names given on the command line (specification SpecNames)
\* ===================================================================
\* os.WriteFile creates the file only in a directory that exists: the cache
\* directory and the directories above it do
ParentExists(path) ==
    LET parent == SubSeq(path, 1, Len(path) - 1)
    IN  Len(parent) <= Len(cacheDir) /\ SubSeq(cacheDir, 1, Len(parent)) = parent

InsideCacheDir(path) ==
    Len(path) > Len(cacheDir) /\ SubSeq(path, 1, Len(cacheDir)) = cacheDir

\* The names are followed with one revision of a definition, and with the
\* cache directory available
NamedResps(n) ==
    { Resp("transport", 0, EmptyBytes), Resp("none", 404, EmptyBytes),
      Resp("none", 200, GameYaml(n, 1)) }
NamedInputs(n) ==
    { in \in ListInputs(NamedResps(n)) :
         /\ in.wr # "truncated"
         /\ in.wr = "ok" /\ in.resp.status = 200 => ParentExists(cacheFileOf(n)) }

\* GetGame(name) with the name a command was given (install, run, stop,
\* restart, remove and uninstall pass args[0]), in a process of its own; the
\* cache file is the one at filepath.Join(getCacheDir(), name+".yaml")
GetGameNamed(n) ==
    /\ \E in \in NamedInputs(n) :
         LET path == cacheFileOf(n)
             key == <<in.dir, n>>
             g == GetGameIn((n :> NoGame), (key :> pathFiles[path]), now, n,
                            in.dir, in.resp, in.wr)
         IN  /\ pathFiles' = [pathFiles EXCEPT ![path] = g.fetch.files[key]]
             /\ last' = [op |-> "GetGameNamed", name |-> n, path |-> path,
                         stats |-> 1, net |-> g.fetch.net, reads |-> g.fetch.reads,
                         wrote |-> g.fetch.wrote, err |-> g.err, game |-> g.game]
    /\ UNCHANGED <<now, registryVars, procs, dockerVars, versionVars, extractVars, spinnerVars>>

NextNames ==
    \/ \E n \in RawNames : GetGameNamed(n)
    \/ Tick

SpecNames == Init /\ [][NextNames]_vars

\* ===================================================================
\* The server commands (specification SpecDocker)
\* ===================================================================
\* The commands are followed for the games of Names, each in a process of
\* its own (gameCache starts empty), with the cache directory unavailable
\* (getCacheDir() returns ""), so that every command that resolves its game
\* asks the registry, which has the definition or answers 404.  The calls
\* of the engine and of the file system succeed unless the command meets
\* the failure it is given: one kind of call that fails.

\* containerPrefix = "hostathome-"
containerPrefix == <<"h", "o", "s", "t", "a", "t", "h", "o", "m", "e", "-">>
\* containerName := containerPrefix + gameName
ContainerName(g) == containerPrefix \o Chars(g)

\* A container: the game it was created for (its name and its label
\* hostathome.game; its mounts are data and configs of ./<game>-server) and
\* its state, "running" or "exited" (the code compares the state with
\* "running" only: a container that was created and not started is followed
\* as one that exited)
Container(g, st) == [game |-> g, state |-> st]

\* An image reference; game.Image of a definition without an image is ""
Image(repo, tag) == [repo |-> repo, tag |-> tag]
NoImage == Image("", "")
\* game.Image of a definition of the registry
GameImage(game) == IF game.name = "" THEN NoImage ELSE Image(game.name, "latest")
\* Image: gameName + "-server:dev"
DevImage(g) == Image(g, "dev")

\* (mutant) a name of 64 characters passes
ValidateGameName_Longer(s) ==
    IF s = <<>> THEN "empty"
    ELSE IF Len(s) > 64 THEN "toolong"
    ELSE IF \E i \in 1..Len(s) : s[i] \notin NameChars THEN "badchars"
    ELSE IF Contains(s, <<".", ".">>) \/ HasPrefix(s, <<"/">>) \/ HasPrefix(s, <<".">>)
    THEN "traversal"
    ELSE "none"

\* ValidateGameName(gameName) of package docker: the error, "none" for nil
ValidateGameName(s) ==
    IF s = <<>> THEN "empty"
    ELSE IF Len(s) > 63 THEN "toolong"
    ELSE IF \E i \in 1..Len(s) : s[i] \notin NameChars THEN "badchars"
    ELSE IF Contains(s, <<".", ".">>) \/ HasPrefix(s, <<"/">>) \/ HasPrefix(s, <<".">>)
    THEN "traversal"
    ELSE "none"

\* cli.ContainerList with the filter name=hostathome-<g>: the engine lists,
\* newest first, the containers whose name contains the filter, all of them
\* or (without All) the running ones
Listed(cs, g, all) ==
    SelectSeq(cs, LAMBDA c : /\ Contains(ContainerName(c.game), ContainerName(g))
                             /\ (all \/ c.state = "running"))

HasContainer(cs, g) == \E i \in DOMAIN cs : cs[i].game = g
SetState(cs, g, st) ==
    [i \in DOMAIN cs |-> IF cs[i].game = g THEN Container(g, st) ELSE cs[i]]
Without(cs, g) == SelectSeq(cs, LAMBDA c : c.game # g)

\* what an operation of package docker comes to
Done(err, cs, ims, pulls) ==
    [err |-> err, containers |-> cs, images |-> ims, pulls |-> pulls]

\* PullImage(imageName)
PullImage(cs, ims, image, fail) ==
    IF fail = "pull" \/ image = NoImage THEN Done("pull", cs, ims, 1)
    ELSE Done("none", cs, ims \cup {image}, 1)

\* The directories CreateServerDirs makes under ./<game>-server
ServerSubdirs == {"data", "configs"}

\* CreateServerDirs(gameName): os.MkdirAll of each directory
CreateServerDirs(sd, g, fail) ==
    IF ValidateGameName(Chars(g)) # "none" THEN [err |-> "invalid", dir |-> sd]
    ELSE IF fail = "mkdir" THEN [err |-> "mkdir", dir |-> sd]
    ELSE [err |-> "none", dir |-> [sd EXCEPT !.dirs = @ \cup ServerSubdirs]]

minPort == 1                  \* docker.go:28
maxPort == 65535              \* docker.go:29

\* ValidatePort(port, name): the error, "none" for nil
ValidatePort(port) == IF port < minPort \/ port > maxPort THEN "range" ELSE "none"

\* registry.Ports and registry.Protocols
Ports(player, rcon) == [player |-> player, rcon |-> rcon]
Protocols(player, rcon) == [player |-> player, rcon |-> rcon]

\* Protocols.DefaultProtocol(port)
DefaultProtocol(p, port) ==
    CASE port = "player" -> IF p.player # "" THEN p.player ELSE "tcp"
      [] port = "rcon" -> IF p.rcon # "" THEN p.rcon ELSE "tcp"
      [] OTHER -> "tcp"

\* What RunContainer reads of a registry.Game: Image, Ports, InternalPorts
\* and Protocols
ServerGame(image, ports, internalPorts, protocols) ==
    [image |-> image, ports |-> ports, internalPorts |-> internalPorts,
     protocols |-> protocols]
\* the game of hostathome run --dev
DevGame(g) ==
    ServerGame(DevImage(g), Ports(30065, 30066), Ports(25565, 25575),
               Protocols("tcp", "tcp"))
\* a definition of the registry, its ports those of the README's example
\* (external 30065 for the players and 30066 for RCON) and no protocols
RegistryGame(image) ==
    ServerGame(image, Ports(30065, 30066), Ports(25565, 25575), Protocols("", ""))

\* (mutant) only the external ports are validated
ValidatePorts_ExternalOnly(game) ==
    IF game.ports.player > 0 /\ ValidatePort(game.ports.player) # "none" THEN "range"
    ELSE IF game.ports.rcon > 0 /\ ValidatePort(game.ports.rcon) # "none" THEN "range"
    ELSE "none"

\* "Validate port mappings": each port that is > 0 goes through ValidatePort
ValidatePorts(game) ==
    IF game.ports.player > 0 /\ ValidatePort(game.ports.player) # "none" THEN "range"
    ELSE IF game.ports.rcon > 0 /\ ValidatePort(game.ports.rcon) # "none" THEN "range"
    ELSE IF game.internalPorts.player > 0
            /\ ValidatePort(game.internalPorts.player) # "none" THEN "range"
    ELSE IF game.internalPorts.rcon > 0
            /\ ValidatePort(game.internalPorts.rcon) # "none" THEN "range"
    ELSE "none"

\* one entry of portBindings: the key "<internal>/<proto>" and its HostPort
Binding(internal, proto, host) == [internal |-> internal, proto |-> proto, host |-> host]

\* "Port mappings": portBindings as RunContainer hands it to ContainerCreate
\* (a map: the RCON entry replaces the player entry of the same key)
PortBindings(game) ==
    LET player == IF game.internalPorts.player > 0 /\ game.ports.player > 0
                  THEN {Binding(game.internalPorts.player,
                                DefaultProtocol(game.protocols, "player"),
                                game.ports.player)}
                  ELSE {}
        rcon == IF game.internalPorts.rcon > 0 /\ game.ports.rcon > 0
                THEN {Binding(game.internalPorts.rcon,
                              DefaultProtocol(game.protocols, "rcon"),
                              game.ports.rcon)}
                ELSE {}
    IN  { b \in player : \A r \in rcon : r.internal # b.internal \/ r.proto # b.proto }
        \cup rcon

\* RunContainer(gameName, game, devMode)
RunContainer(cs, ims, g, game, devMode, fail) ==
    IF ValidateGameName(Chars(g)) # "none" THEN Done("invalid", cs, ims, 0)
    ELSE IF fail = "list" THEN Done("list", cs, ims, 0)
    ELSE LET l == Listed(cs, g, TRUE) IN
    IF Len(l) > 0
    THEN IF l[1].state = "running" THEN Done("none", cs, ims, 0)
         ELSE IF fail = "start" THEN Done("start", cs, ims, 0)
         ELSE Done("none", SetState(cs, l[1].game, "running"), ims, 0)
    ELSE IF devMode /\ (fail = "imagelist" \/ game.image \notin ims)
    THEN Done("noimage", cs, ims, 0)
    ELSE LET pull == IF devMode THEN Done("none", cs, ims, 0)
                                ELSE PullImage(cs, ims, game.image, fail) IN
    IF pull.err # "none" THEN pull
    ELSE IF ValidatePorts(game) # "none" THEN Done("port", cs, pull.images, pull.pulls)
    ELSE IF fail = "create" THEN Done("create", cs, pull.images, pull.pulls)
    ELSE IF fail = "start"
    THEN Done("start", <<Container(g, "exited")>> \o cs, pull.images, pull.pulls)
    ELSE Done("none", <<Container(g, "running")>> \o cs, pull.images, pull.pulls)

\* RestartContainer(gameName)
RestartContainer(cs, ims, g, fail) ==
    IF ValidateGameName(Chars(g)) # "none" THEN Done("invalid", cs, ims, 0)
    ELSE IF fail = "list" THEN Done("list", cs, ims, 0)
    ELSE LET l == Listed(cs, g, TRUE) IN
    IF Len(l) = 0 THEN Done("notfound", cs, ims, 0)
    ELSE IF fail = "restart" THEN Done("restart", cs, ims, 0)
    ELSE Done("none", SetState(cs, l[1].game, "running"), ims, 0)

\* StopContainer(gameName)
StopContainer(cs, ims, g, fail) ==
    IF ValidateGameName(Chars(g)) # "none" THEN Done("invalid", cs, ims, 0)
    ELSE IF fail = "list" THEN Done("list", cs, ims, 0)
    ELSE LET l == Listed(cs, g, FALSE) IN
    IF Len(l) = 0 THEN Done("notfound", cs, ims, 0)
    ELSE IF fail = "stop" THEN Done("stop", cs, ims, 0)
    ELSE Done("none", SetState(cs, l[1].game, "exited"), ims, 0)

\* RemoveContainer(gameName)
RemoveContainer(cs, ims, g, fail) ==
    IF ValidateGameName(Chars(g)) # "none" THEN Done("invalid", cs, ims, 0)
    ELSE IF fail = "list" THEN Done("list", cs, ims, 0)
    ELSE LET l == Listed(cs, g, TRUE) IN
    IF Len(l) = 0 THEN Done("notfound", cs, ims, 0)
    ELSE LET c == l[1]
             stopped == IF c.state = "running" THEN SetState(cs, c.game, "exited") ELSE cs
         IN  IF c.state = "running" /\ fail = "stop" THEN Done("stop", cs, ims, 0)
             ELSE IF fail = "remove" THEN Done("remove", stopped, ims, 0)
             ELSE Done("none", Without(cs, c.game), ims, 0)

\* RemoveImage(imageName): cli.ImageRemove with Force
RemoveImage(cs, ims, image, fail) ==
    IF fail = "rmi" \/ image \notin ims THEN Done("rmi", cs, ims, 0)
    ELSE Done("none", cs, ims \ {image}, 0)

\* CopyDefaultConfig(gameName, game) as the commands see it: the files there
\* are in configs.  config.yaml and mods.yaml are each extracted from the
\* image when they do not exist, and only a config.yaml that could not be
\* extracted is an error (the contents of the files and the temporary
\* containers are followed in SpecExtract)
CopyDefaultConfig(sd, ims, g, image, fail) ==
    IF validateGameName(Chars(g)) # "none" THEN [err |-> "invalid", dir |-> sd]
    ELSE IF fail = "mkdir" THEN [err |-> "mkdir", dir |-> sd]
    ELSE LET made == [sd EXCEPT !.dirs = @ \cup {"configs"}]
             extracts == fail # "extract" /\ image \in ims
             config == IF extracts THEN {"configs/config.yaml"} ELSE {}
             mods == IF extracts THEN {"configs/mods.yaml"} ELSE {}
         IN
    IF "configs/config.yaml" \notin sd.files /\ ~extracts
    THEN [err |-> "extract", dir |-> made]
    ELSE [err |-> "none", dir |-> [made EXCEPT !.files = @ \cup config \cup mods]]

\* The answers to "Are you sure? (yes/no): ", a line being its words
Answers == { <<>>, <<"y">>, <<"yes">>, <<"no">>, <<"yes", "please">> }
NoAnswer == <<"-">>

\* fmt.Scanln(&response): the first word of the line, "" for an empty line
Scanln(line) == IF line = <<>> THEN "" ELSE line[1]

\* (mutant) every answer but the empty one confirms
Confirmed_NotEmpty(response) == response # ""

\* !(response != "yes" && response != "y")
Confirmed(response) == response = "yes" \/ response = "y"

\* the record of the last command: its name, its argument, its flag --dev,
\* whether it asked for confirmation and the answer, its error, the number
\* of requests to the registry and of image pulls it made
Cmd(op, g, dev, asked, answer, err, net, pulls) ==
    [op |-> op, name |-> g, dev |-> dev, asked |-> asked, answer |-> answer,
     err |-> err, net |-> net, pulls |-> pulls]

DockerResps(g) == { Resp("none", 404, EmptyBytes), Resp("none", 200, GameYaml(g, 1)) }
DockerInputs(g) == { in \in Inputs(DockerResps(g)) : in.dir = "" }
\* registry.GetGame(gameName) at the start of a command
Resolve(g, in) == GetGameIn(EmptyCache, files, now, g, in.dir, in.resp, in.wr)
\* the failures that are met after the game was resolved
FailuresAfter(err, fails) == IF err = "none" THEN fails \cup {"none"} ELSE {"none"}

\* hostathome install <game>
installCmd(g) ==
    /\ \E in \in DockerInputs(g) :
       LET got == Resolve(g, in) IN
       \E fail \in FailuresAfter(got.err, {"pull", "extract"}) :
         LET image == GameImage(got.game)
             pull == PullImage(containers, images, image, fail)
             dirs == CreateServerDirs(serverDirs[g], g, fail)
             conf == CopyDefaultConfig(dirs.dir, pull.images, g, image, fail)
         IN  /\ files' = got.fetch.files
             /\ IF got.err # "none"
                THEN /\ UNCHANGED <<images, serverDirs>>
                     /\ last' = Cmd("install", g, FALSE, FALSE, NoAnswer, got.err,
                                    got.fetch.net, 0)
                ELSE IF pull.err # "none"
                THEN /\ UNCHANGED <<images, serverDirs>>
                     /\ last' = Cmd("install", g, FALSE, FALSE, NoAnswer, pull.err,
                                    got.fetch.net, 1)
                ELSE /\ images' = pull.images
                     /\ serverDirs' = [serverDirs EXCEPT ![g] =
                                         IF dirs.err # "none" THEN dirs.dir ELSE conf.dir]
                     /\ last' = Cmd("install", g, FALSE, FALSE, NoAnswer,
                                    IF dirs.err # "none" THEN dirs.err ELSE conf.err,
                                    got.fetch.net, 1)
    /\ UNCHANGED <<now, gameCache, listPc, listIndex, listGames, listTrace>>
    /\ UNCHANGED <<containers, procs, pathFiles, versionVars, extractVars, spinnerVars>>

\* hostathome run <game> [--dev]
runCmd(g, dev) ==
    /\ \E in \in (IF dev THEN {CHOOSE x \in DockerInputs(g) : TRUE} ELSE DockerInputs(g)) :
       LET got == IF dev THEN Got("none", Game(g, 0), EmptyCache, NoFetch(files))
                         ELSE Resolve(g, in)
       IN
       \E fail \in FailuresAfter(got.err,
                     {"start", "create"} \cup (IF dev THEN {} ELSE {"pull"})) :
         LET game == IF dev THEN DevGame(g) ELSE RegistryGame(GameImage(got.game))
             dirs == CreateServerDirs(serverDirs[g], g, fail)
             ran == RunContainer(containers, images, g, game, dev, fail)
         IN  /\ files' = got.fetch.files
             /\ IF got.err # "none"
                THEN /\ UNCHANGED <<containers, images, serverDirs>>
                     /\ last' = Cmd("run", g, dev, FALSE, NoAnswer, got.err,
                                    got.fetch.net, 0)
                ELSE IF dirs.err # "none"
                THEN /\ UNCHANGED <<containers, images, serverDirs>>
                     /\ last' = Cmd("run", g, dev, FALSE, NoAnswer, dirs.err,
                                    got.fetch.net, 0)
                ELSE /\ serverDirs' = [serverDirs EXCEPT ![g] = dirs.dir]
                     /\ containers' = ran.containers
                     /\ images' = ran.images
                     /\ last' = Cmd("run", g, dev, FALSE, NoAnswer, ran.err,
                                    got.fetch.net, ran.pulls)
    /\ UNCHANGED <<now, gameCache, listPc, listIndex, listGames, listTrace>>
    /\ UNCHANGED <<procs, pathFiles, versionVars, extractVars, spinnerVars>>

\* hostathome stop <game>
stopCmd(g) ==
    /\ \E in \in DockerInputs(g) :
       LET got == Resolve(g, in) IN
       \E fail \in FailuresAfter(got.err, {"stop"}) :
         LET stopped == StopContainer(containers, images, g, fail)
         IN  /\ files' = got.fetch.files
             /\ containers' = IF got.err # "none" THEN containers ELSE stopped.containers
             /\ last' = Cmd("stop", g, FALSE, FALSE, NoAnswer,
                            IF got.err # "none" THEN got.err ELSE stopped.err,
                            got.fetch.net, 0)
    /\ UNCHANGED <<now, gameCache, listPc, listIndex, listGames, listTrace>>
    /\ UNCHANGED <<images, serverDirs, procs, pathFiles, versionVars, extractVars, spinnerVars>>

\* hostathome remove <game>
removeCmd(g) ==
    /\ \E in \in DockerInputs(g) :
       LET got == Resolve(g, in) IN
       \E fail \in FailuresAfter(got.err, {"stop", "remove"}) :
         LET removed == RemoveContainer(containers, images, g, fail)
         IN  /\ files' = got.fetch.files
             /\ containers' = IF got.err # "none" THEN containers ELSE removed.containers
             /\ last' = Cmd("remove", g, FALSE, FALSE, NoAnswer,
                            IF got.err # "none" THEN got.err ELSE removed.err,
                            got.fetch.net, 0)
    /\ UNCHANGED <<now, gameCache, listPc, listIndex, listGames, listTrace>>
    /\ UNCHANGED <<images, serverDirs, procs, pathFiles, versionVars, extractVars, spinnerVars>>

\* hostathome uninstall <game>, answered with a line
uninstallCmd(g) ==
    /\ \E in \in DockerInputs(g) :
       LET got == Resolve(g, in) IN
       \E answer \in (IF got.err = "none" THEN Answers ELSE {NoAnswer}) :
       \E fail \in FailuresAfter(IF Confirmed(Scanln(answer)) THEN got.err ELSE "skip",
                                 {"remove", "rmdir"}) :
         LET removed == RemoveContainer(containers, images, g, fail)
             untagged == RemoveImage(removed.containers, images, GameImage(got.game), fail)
         IN  /\ files' = got.fetch.files
             /\ IF got.err # "none"
                THEN /\ UNCHANGED <<containers, images, serverDirs>>
                     /\ last' = Cmd("uninstall", g, FALSE, FALSE, NoAnswer, got.err,
                                    got.fetch.net, 0)
                ELSE IF ~Confirmed(Scanln(answer))
                THEN /\ UNCHANGED <<containers, images, serverDirs>>
                     /\ last' = Cmd("uninstall", g, FALSE, TRUE, answer, "none",
                                    got.fetch.net, 0)
                ELSE /\ containers' = removed.containers
                     /\ images' = untagged.images
                     /\ serverDirs' = IF fail = "rmdir" THEN serverDirs
                                      ELSE [serverDirs EXCEPT ![g] = NoServerDir]
                     /\ last' = Cmd("uninstall", g, FALSE, TRUE, answer,
                                    IF fail = "rmdir" THEN "rmdir" ELSE "none",
                                    got.fetch.net, 0)
    /\ UNCHANGED <<now, gameCache, listPc, listIndex, listGames, listTrace>>
    /\ UNCHANGED <<procs, pathFiles, versionVars, extractVars, spinnerVars>>

\* docker build -t <game>-server:dev . by the user
BuildDevImage(g) ==
    /\ DevImage(g) \notin images
    /\ images' = images \cup {DevImage(g)}
    /\ last' = Cmd("build", g, TRUE, FALSE, NoAnswer, "none", 0, 0)
    /\ UNCHANGED <<now, registryVars, containers, serverDirs, procs, pathFiles, versionVars, extractVars, spinnerVars>>

NextDocker ==
    \/ \E g \in Names : installCmd(g)
    \/ \E g \in Names, dev \in BOOLEAN : runCmd(g, dev)
    \/ \E g \in Names : stopCmd(g)
    \/ \E g \in Names : removeCmd(g)
    \/ \E g \in Names : uninstallCmd(g)
    \/ \E g \in Names : BuildDevImage(g)

SpecDocker == Init /\ [][NextDocker]_vars

\* ===================================================================
\* The operations of package docker (specification SpecEngine)
\* ===================================================================
\* The operations are called one after the other with the names of
\* RawNames, each with the failure it meets: one kind of call that fails.
\* The games are those of the registry (RunContainer without --dev).

\* the record of the last operation: its name, its arguments, the failure
\* it was given, its error and the number of image pulls it made
EngineCall(op, g, dev, fail, err, pulls) ==
    [op |-> op, name |-> g, dev |-> dev, fail |-> fail, err |-> err, pulls |-> pulls]

\* ./<g>-server as it is
DirOf(g) == IF g \in Names THEN serverDirs[g] ELSE NoServerDir

CallCreateServerDirs(g) ==
    /\ \E fail \in {"none", "mkdir"} :
       LET made == CreateServerDirs(DirOf(g), g, fail) IN
       /\ serverDirs' = IF g \in Names THEN [serverDirs EXCEPT ![g] = made.dir]
                                       ELSE serverDirs
       /\ last' = EngineCall("CreateServerDirs", g, FALSE, fail, made.err, 0)
    /\ UNCHANGED <<now, registryVars, containers, images, procs, pathFiles, versionVars, extractVars, spinnerVars>>

CallRunContainer(g) ==
    /\ \E fail \in {"none", "list", "pull", "create", "start"} :
       LET game == RegistryGame(Image(g, "latest"))
           ran == RunContainer(containers, images, g, game, FALSE, fail)
       IN  /\ containers' = ran.containers
           /\ images' = ran.images
           /\ last' = EngineCall("RunContainer", g, FALSE, fail, ran.err, ran.pulls)
    /\ UNCHANGED <<now, registryVars, serverDirs, procs, pathFiles, versionVars, extractVars, spinnerVars>>

CallStopContainer(g) ==
    /\ \E fail \in {"none", "list", "stop"} :
       LET stopped == StopContainer(containers, images, g, fail) IN
       /\ containers' = stopped.containers
       /\ last' = EngineCall("StopContainer", g, FALSE, fail, stopped.err, 0)
    /\ UNCHANGED <<now, registryVars, images, serverDirs, procs, pathFiles, versionVars, extractVars, spinnerVars>>

CallRestartContainer(g) ==
    /\ \E fail \in {"none", "list", "restart"} :
       LET restarted == RestartContainer(containers, images, g, fail) IN
       /\ containers' = restarted.containers
       /\ last' = EngineCall("RestartContainer", g, FALSE, fail, restarted.err, 0)
    /\ UNCHANGED <<now, registryVars, images, serverDirs, procs, pathFiles, versionVars, extractVars, spinnerVars>>

CallRemoveContainer(g) ==
    /\ \E fail \in {"none", "list", "stop", "remove"} :
       LET removed == RemoveContainer(containers, images, g, fail) IN
       /\ containers' = removed.containers
       /\ last' = EngineCall("RemoveContainer", g, FALSE, fail, removed.err, 0)
    /\ UNCHANGED <<now, registryVars, images, serverDirs, procs, pathFiles, versionVars, extractVars, spinnerVars>>

NextEngine ==
    \/ \E g \in RawNames : CallCreateServerDirs(g)
    \/ \E g \in RawNames : CallRunContainer(g)
    \/ \E g \in RawNames : CallStopContainer(g)
    \/ \E g \in RawNames : CallRestartContainer(g)
    \/ \E g \in RawNames : CallRemoveContainer(g)

SpecEngine == Init /\ [][NextEngine]_vars

\* ===================================================================
\* The ports of a container (specification SpecPorts)
\* ===================================================================
\* RunContainer is called for game a with the definitions of PortGames,
\* on an engine that has no container of a, one that runs or one that does
\* not; RemoveContainer takes the container away again.

\* the values of the four ports: not set, the least, the greatest, too great
PlayerPorts == {0, minPort, maxPort, maxPort + 1}
RconPorts == {0, maxPort, maxPort + 1}
PortGames ==
    { ServerGame(Image("a", "latest"), Ports(p, r), Ports(ip, ir), pr) :
        p \in PlayerPorts, ip \in PlayerPorts, r \in RconPorts, ir \in {0, maxPort},
        pr \in {Protocols("", ""), Protocols("udp", "tcp")} }

\* the record of the last call: the definition, the failure it was given,
\* its error, and whether cli.ContainerCreate was called and with what
\* portBindings
PortsCall(op, game, fail, err, called, bindings) ==
    [op |-> op, game |-> game, fail |-> fail, err |-> err,
     create |-> [called |-> called, bindings |-> bindings]]

RunGame ==
    /\ \E game \in PortGames, fail \in {"none", "create", "start"} :
       LET ran == RunContainer(containers, images, "a", game, FALSE, fail)
           called == Listed(containers, "a", TRUE) = <<>>
                     /\ ran.err \in {"none", "create", "start"}
       IN  /\ containers' = ran.containers
           /\ images' = ran.images
           /\ last' = PortsCall("RunContainer", game, fail, ran.err, called,
                                IF called THEN PortBindings(game) ELSE {})
    /\ UNCHANGED <<now, registryVars, serverDirs, procs, pathFiles, versionVars, extractVars, spinnerVars>>

RemoveGame ==
    /\ LET removed == RemoveContainer(containers, images, "a", "none") IN
       /\ containers' = removed.containers
       /\ last' = PortsCall("RemoveContainer", ServerGame(NoImage, Ports(0, 0), Ports(0, 0),
                                                          Protocols("", "")),
                            "none", removed.err, FALSE, {})
    /\ UNCHANGED <<now, registryVars, images, serverDirs, procs, pathFiles, versionVars, extractVars, spinnerVars>>

NextPorts == RunGame \/ RemoveGame

SpecPorts == Init /\ [][NextPorts]_vars

\* ===================================================================
\* The default configuration (specification SpecExtract)
\* ===================================================================
\* CopyDefaultConfig is called for game a, and for a name that is not one,
\* with an image whose /defaults holds some versions of the two files; the
\* user edits and deletes the files in between.  A file is followed by its
\* content: Absent, "v1" or "v2" (a default of the image), "part" (a default
\* that was written in part), "user" (what the user made of it).

MaxTemps == 2                 \* temporary containers the engine is left with

ImageDefaults ==
    { [f \in ConfigNames |-> IF f = "config.yaml" THEN c ELSE m] :
        c \in {Absent, "v1", "v2"}, m \in {Absent, "v1"} }
ExtractFails == {"none", "create", "copy", "eof", "tar", "open", "write", "chmod"}

\* what extractFileFromImage comes to: its error, the destination file, the
\* temporary containers it created, the removals it issued, and the
\* temporary containers that remain
Extracted(err, file, created, removals, left) ==
    [err |-> err, file |-> file, created |-> created, removals |-> removals,
     left |-> left]

\* extractFileFromImage(ctx, cli, imageRef, containerPath, destPath), with
\* content what the image holds at containerPath, dest the file at destPath
\* and rm the outcome of the deferred docker rm -f, which is not looked at
extractFileFromImage(content, dest, fail, rm) ==
    IF fail = "create" THEN Extracted("create", dest, 0, 0, 0)
    ELSE LET left == IF rm = "ok" THEN 0 ELSE 1 IN
    IF fail = "copy" \/ content = Absent THEN Extracted("copy", dest, 1, 1, left)
    ELSE IF fail = "eof" THEN Extracted("notfound", dest, 1, 1, left)
    ELSE IF fail = "tar" THEN Extracted("tar", dest, 1, 1, left)
    ELSE IF fail = "open" THEN Extracted("open", dest, 1, 1, left)
    ELSE IF fail = "write" THEN Extracted("write", "part", 1, 1, left)
    ELSE IF fail = "chmod" THEN Extracted("chmod", content, 1, 1, left)
    ELSE Extracted("none", content, 1, 1, left)

\* (mutant) every file is extracted
NeedsExtract_Always(file) == TRUE

\* _, err := os.Stat(path); err != nil
NeedsExtract(file) == file = Absent

NotExtracted(file) == Extracted("skipped", file, 0, 0, 0)

\* the record of the last call of CopyDefaultConfig: its error, what the
\* extraction of each file came to, the temporary containers that were
\* created and the removals that were issued
Copied(g, err, config, mods) ==
    [op |-> "CopyDefaultConfig", name |-> g, err |-> err,
     configErr |-> config.err, modsErr |-> mods.err,
     created |-> config.created + mods.created,
     removals |-> config.removals + mods.removals,
     left |-> config.left + mods.left]

\* CopyDefaultConfig(gameName, game), with defaults what /defaults of
\* game.Image holds
CallCopyDefaultConfig(g) ==
    /\ \E defaults \in ImageDefaults, fail \in ExtractFails \cup {"mkdir"},
          modsFail \in {"none", "copy", "write"}, rm \in {"ok", "fail"} :
       LET config == IF NeedsExtract(configFiles["config.yaml"])
                     THEN extractFileFromImage(defaults["config.yaml"],
                                               configFiles["config.yaml"], fail, rm)
                     ELSE NotExtracted(configFiles["config.yaml"])
           mods == IF NeedsExtract(configFiles["mods.yaml"])
                   THEN extractFileFromImage(defaults["mods.yaml"],
                                             configFiles["mods.yaml"], modsFail, rm)
                   ELSE NotExtracted(configFiles["mods.yaml"])
           none == NotExtracted(Absent)
       IN  IF validateGameName(Chars(g)) # "none"
           THEN /\ last' = Copied(g, "invalid", none, none)
                /\ UNCHANGED extractVars
           ELSE IF fail = "mkdir"
           THEN /\ last' = Copied(g, "mkdir", none, none)
                /\ UNCHANGED extractVars
           ELSE IF config.err \notin {"none", "skipped"}
           THEN /\ tempContainers + config.left <= MaxTemps
                /\ last' = Copied(g, "extract", config, none)
                /\ configFiles' = [configFiles EXCEPT !["config.yaml"] = config.file]
                /\ tempContainers' = tempContainers + config.left
           ELSE /\ tempContainers + config.left + mods.left <= MaxTemps
                /\ last' = Copied(g, "none", config, mods)
                /\ configFiles' = [configFiles EXCEPT !["config.yaml"] = config.file,
                                                      !["mods.yaml"] = mods.file]
                /\ tempContainers' = tempContainers + config.left + mods.left
    /\ UNCHANGED <<now, registryVars, procs, pathFiles, dockerVars, versionVars, spinnerVars>>

\* the user edits a file of ./a-server/configs
EditConfig(f) ==
    /\ configFiles[f] \notin {Absent, "user"}
    /\ configFiles' = [configFiles EXCEPT ![f] = "user"]
    /\ last' = [op |-> "edit", name |-> f]
    /\ UNCHANGED <<now, registryVars, procs, pathFiles, dockerVars, versionVars, spinnerVars,
                   tempContainers>>

\* the user deletes a file of ./a-server/configs
DeleteConfig(f) ==
    /\ configFiles[f] # Absent
    /\ configFiles' = [configFiles EXCEPT ![f] = Absent]
    /\ last' = [op |-> "delete", name |-> f]
    /\ UNCHANGED <<now, registryVars, procs, pathFiles, dockerVars, versionVars, spinnerVars,
                   tempContainers>>

NextExtract ==
    \/ \E g \in {"a", "../a"} : CallCopyDefaultConfig(g)
    \/ \E f \in ConfigNames : EditConfig(f)
    \/ \E f \in ConfigNames : DeleteConfig(f)

SpecExtract == Init /\ [][NextExtract]_vars

\* ===================================================================
\* The spinner (specification SpecSpinner)
\* ===================================================================
\* One goroutine calls Start, Stop and StopWithMessage on one Spinner, in
\* any order, and at some point calls no more; the animation goroutines run
\* beside it.  spinner.done is the number of values in the channel done,
\* whose buffer holds one.  An animation goroutine is followed by its
\* variable i, Exited once it has returned.

MaxCalls == 4                 \* calls the caller makes on the Spinner
NumFrames == 10               \* ui.go:112, len(s.frames)
Exited == -1

\* isTerminal(), stdout being a terminal or not for the whole run
isTerminal == script.stdout = "terminal"

\* the record of the last call
SpinnerCall(op, acted) == [op |-> op, acted |-> acted]

MayCall == script.stdout # "unset" /\ ~script.ended /\ script.calls < MaxCalls
Called(op) == [script EXCEPT !.calls = @ + 1, !.lastCall = op]

\* the process starts, its stdout a terminal or not
StartProcess(out) ==
    /\ script.stdout = "unset"
    /\ script' = [script EXCEPT !.stdout = out]
    /\ last' = SpinnerCall("NewSpinner", FALSE)
    /\ UNCHANGED <<spinner, goroutines>>
    /\ UNCHANGED <<now, registryVars, procs, pathFiles, dockerVars, versionVars, extractVars>>

\* (s *Spinner) Start()
Start ==
    /\ MayCall
    /\ IF ~isTerminal \/ spinner.running
       THEN /\ UNCHANGED <<spinner, goroutines>>
            /\ last' = SpinnerCall("Start", FALSE)
       ELSE /\ spinner' = [spinner EXCEPT !.running = TRUE]
            /\ goroutines' = Append(goroutines, 0)
            /\ last' = SpinnerCall("Start", TRUE)
    /\ script' = Called("Start")
    /\ UNCHANGED <<now, registryVars, procs, pathFiles, dockerVars, versionVars, extractVars>>

\* (s *Spinner) stop(): the Spinner afterwards; the send is dropped when
\* the buffer of done is full
stop(s) ==
    IF s.running THEN [running |-> FALSE, done |-> IF s.done < 1 THEN s.done + 1 ELSE s.done]
    ELSE s

\* (s *Spinner) Stop(success) and StopWithMessage(success, message)
Stop(op) ==
    /\ MayCall
    /\ spinner' = stop(spinner)
    /\ last' = SpinnerCall(op, spinner.running)
    /\ script' = Called("Stop")
    /\ UNCHANGED goroutines
    /\ UNCHANGED <<now, registryVars, procs, pathFiles, dockerVars, versionVars, extractVars>>

\* one round of the loop of animation goroutine k: it returns when it
\* receives from done, and prints a frame and sleeps otherwise
Animate(k) ==
    /\ k \in DOMAIN goroutines
    /\ goroutines[k] # Exited
    /\ IF spinner.done > 0
       THEN /\ spinner' = [spinner EXCEPT !.done = @ - 1]
            /\ goroutines' = [goroutines EXCEPT ![k] = Exited]
       ELSE /\ goroutines' = [goroutines EXCEPT ![k] = (@ + 1) % NumFrames]
            /\ UNCHANGED spinner
    /\ UNCHANGED <<script, last>>
    /\ UNCHANGED <<now, registryVars, procs, pathFiles, dockerVars, versionVars, extractVars>>

\* the caller makes no more calls, its last one a Stop
LastStopReturned ==
    /\ ~script.ended
    /\ script.lastCall = "Stop"
    /\ script' = [script EXCEPT !.ended = TRUE]
    /\ UNCHANGED <<spinner, goroutines, last>>
    /\ UNCHANGED <<now, registryVars, procs, pathFiles, dockerVars, versionVars, extractVars>>

NextSpinner ==
    \/ \E out \in {"terminal", "pipe"} : StartProcess(out)
    \/ Start
    \/ \E op \in {"Stop", "StopWithMessage"} : Stop(op)
    \/ \E k \in 1..MaxCalls : Animate(k)
    \/ LastStopReturned

\* every animation goroutine that can run does run
SpecSpinner ==
    /\ Init
    /\ [][NextSpinner]_vars
    /\ \A k \in 1..MaxCalls : WF_vars(Animate(k))

\* ===================================================================
\* The daily update check (specification SpecVersion)
\* ===================================================================
checkInterval == 1440        \* version.go:15, 24 * time.Hour, in minutes
DayStep == 720               \* minutes that pass in one DayTick
MaxVersionTime == 2880       \* the clock of SpecVersion stops advancing here

\* cmd.Name() of the commands that are invoked
Commands == {"list", "update", "version"}

\* shouldCheckForUpdate(): false when the home directory is unknown, true
\* when the file cannot be stat'ed, else whether it is older than
\* checkInterval
shouldCheckForUpdate(home, f, t) ==
    IF ~home THEN FALSE
    ELSE IF ~f.exists THEN TRUE
    ELSE t - f.modTime > checkInterval

\* markChecked(): the file is written with the time; errors are ignored
markChecked(home, f, t, wr) ==
    IF home /\ wr = "ok" THEN File(Bytes("time", <<>>, t), t) ELSE f

\* CheckForUpdate(currentVersion): whether GetLatestVersion() was called,
\* and the file afterwards
CheckForUpdate(home, f, t, resp, wr) ==
    IF ~shouldCheckForUpdate(home, f, t) THEN [queried |-> FALSE, file |-> f]
    ELSE IF resp # "ok" THEN [queried |-> TRUE, file |-> f]
    ELSE [queried |-> TRUE, file |-> markChecked(home, f, t, wr)]

\* the times of the last two automatic checks, newest first
Recent(cs, t) == IF cs = <<>> THEN <<t>> ELSE <<t, cs[1]>>

\* rootCmd.PersistentPreRun of an invocation of cmd, with home whether
\* os.UserHomeDir() succeeds, resp the answer of the release endpoint and wr
\* the outcome of the write of the file
Invoke(cmd) ==
    /\ \E home \in BOOLEAN, resp \in {"ok", "fail"}, wr \in {"ok", "fail"} :
         LET skip == cmd = "update" \/ cmd = "version"
             c == IF skip THEN [queried |-> FALSE, file |-> versionCheck]
                          ELSE CheckForUpdate(home, versionCheck, now, resp, wr)
         IN  /\ versionCheck' = c.file
             /\ checks' = IF c.queried THEN Recent(checks, now) ELSE checks
             /\ last' = [op |-> "invoke", name |-> cmd, home |-> home,
                         auto |-> c.queried,
                         resp |-> IF c.queried THEN resp ELSE "norequest",
                         marked |-> c.file # versionCheck]
    /\ UNCHANGED <<now, registryVars, procs, pathFiles, dockerVars, extractVars, spinnerVars>>

\* half a day passes
DayTick ==
    /\ now < MaxVersionTime
    /\ now' = now + DayStep
    /\ last' = [op |-> "tick", name |-> "", home |-> TRUE, auto |-> FALSE,
                resp |-> "norequest", marked |-> FALSE]
    /\ UNCHANGED <<registryVars, procs, pathFiles, dockerVars, versionVars, extractVars, spinnerVars>>

NextVersion ==
    \/ \E cmd \in Commands : Invoke(cmd)
    \/ DayTick

SpecVersion == Init /\ [][NextVersion]_vars


\* ===================================================================
\* Properties of GetGame and fetchWithCache (specification Spec)
\* ===================================================================
\* The age of a file at the time of the last call (the clock has not moved
\* since: Tick replaces the record of the last call)
Age(f) == now - f.modTime
IsGetGame == last.op = "GetGame"
ByNetwork == last.net > 0
CachePath(n) == <<"cache", n>>

\* a GetGame of the followed process that succeeded has its result in the map
C1_Stored ==
    IsGetGame /\ last.proc = "cli" /\ last.err = "none" => gameCache[last.name] = last.game
\* an entry of the map stays as it is, and is what GetGame returns
C1_Step ==
    \A n \in Names :
        gameCache[n] # NoGame /\ last'.op # "exit" =>
            /\ gameCache'[n] = gameCache[n]
            /\ last'.op = "GetGame" /\ last'.proc = "cli" /\ last'.name = n =>
                /\ last'.err = "none"
                /\ last'.game = gameCache[n]
                /\ last'.net = 0
                /\ last'.reads = 0
                /\ files' = files
\* C1: once GetGame(n) has succeeded in a process its definition is in the
\* process's map, and from then on, until the process exits, the entry never
\* changes and every GetGame(n) of the process returns it without a network
\* request and without a read of the cache file, whatever the remote answers
\* and whatever the cache file holds by then.
C1_SameDefinitionInProcess == [](C1_Stored) /\ [][C1_Step]_vars
\* a second GetGame(n) answered from the map while the cache file holds
\* another revision than the map
C1_Witness ==
    /\ IsGetGame /\ last.hit /\ last.game.rev = 1
    /\ files[CachePath(last.name)].exists
    /\ files[CachePath(last.name)].data = GameYaml(last.name, 2)

\* C2: a GetGame(n) that finds a cache file for n younger than cacheTTL
\* issues no network request.
C2_FreshCacheNoNetwork ==
    IsGetGame /\ last.before.exists /\ Age(last.before) < cacheTTL => last.net = 0
\* a cache file of age 30 minutes was served
C2_Witness ==
    /\ IsGetGame /\ last.before.exists /\ Age(last.before) > 0 /\ Age(last.before) < cacheTTL
    /\ last.err = "none" /\ last.game # NoGame /\ last.net = 0

\* C3: when the remote answers 404 for n, GetGame(n) fails with the
\* not-found error and the cache file, present or not, is not read.
C3_NotFoundIgnoresCache ==
    IsGetGame /\ last.resp.status = 404 =>
        /\ last.err = "notfound"
        /\ last.game = NoGame
        /\ last.reads = 0
\* a 404 answered while a stale cache file with a valid definition exists
C3_Witness ==
    /\ IsGetGame /\ last.resp.status = 404
    /\ last.before.exists /\ Age(last.before) >= cacheTTL
    /\ last.before.data = GameYaml(last.name, 1)
    /\ last.err = "notfound"

\* C4 as claimed: when the request fails in transport, GetGame(n) succeeds
\* and returns the cached data if a cache file for n exists, and fails with
\* the transport error if none exists.
C4_AsClaimed ==
    IsGetGame /\ last.resp.err = "transport" =>
        IF last.before.exists
        THEN last.err = "none" /\ last.game = yamlUnmarshalGame(last.before.data).game
        ELSE last.err = "transport"
\* C4 as amended: when the request fails in transport and a cache file for n
\* exists, fetchWithCache succeeds with the bytes of the cache file, and
\* GetGame(n) returns the definition parsed from them, or the parse error
\* when they do not parse; when no cache file exists GetGame(n) fails with
\* the transport error.
C4_TransportFallsBackToCache ==
    IsGetGame /\ last.resp.err = "transport" =>
        IF last.before.exists
        THEN /\ last.ferr = "none"
             /\ last.data = last.before.data
             /\ IF yamlUnmarshalGame(last.before.data).ok
                THEN last.err = "none" /\ last.game = yamlUnmarshalGame(last.before.data).game
                ELSE last.err = "parse" /\ last.game = NoGame
        ELSE last.err = "transport" /\ last.game = NoGame
\* a transport failure answered from a stale cache file
C4_Witness ==
    /\ IsGetGame /\ last.resp.err = "transport"
    /\ last.before.exists /\ Age(last.before) >= cacheTTL
    /\ last.err = "none" /\ last.game = Game(last.name, 1)

\* C5: when the remote answers with a status other than 200 and 404,
\* fetchWithCache returns the bytes of the cache file if one exists and
\* fails with the status error otherwise.
C5_OtherStatusFallsBackToCache ==
    IsGetGame /\ last.resp.err = "none" /\ last.resp.status \notin {0, 200, 404} =>
        IF last.before.exists
        THEN last.ferr = "none" /\ last.data = last.before.data
        ELSE last.ferr = "status" /\ last.err = "status"
\* a 500 answered from a stale cache file
C5_Witness ==
    /\ IsGetGame /\ last.resp.status = 500
    /\ last.before.exists /\ Age(last.before) >= cacheTTL
    /\ last.ferr = "none" /\ last.data = last.before.data /\ last.data.fmt = "game-yaml"

\* a successful cache write leaves the bytes received in the cache file
C8_Written ==
    IsGetGame /\ last.wr = "ok" =>
        /\ last.ferr = "none"
        /\ files[<<last.dir, last.name>>] = File(last.resp.body, now)
        /\ last.data = last.resp.body
\* a cache file younger than cacheTTL is not changed, and is served as it is
C8_Step ==
    \A n \in Names :
        LET f == files[CachePath(n)] IN
        f.exists /\ now' - f.modTime < cacheTTL =>
            /\ files'[CachePath(n)] = f
            /\ last'.op = "GetGame" /\ last'.name = n /\ last'.dir = "cache" =>
                last'.ferr = "none" /\ last'.data = f.data /\ last'.net = 0
\* C8: after a fetch from the remote whose cache write succeeded the cache
\* file holds exactly the bytes received, stamped with the time of the
\* write; as long as a cache file is younger than cacheTTL no step changes
\* it, and a fetchWithCache that finds it returns exactly its bytes.
C8_CacheRoundTrip == [](C8_Written) /\ [][C8_Step]_vars
\* bytes written by one process are served to a later one from the cache
C8_Witness ==
    /\ IsGetGame /\ ~last.hit /\ last.net = 0 /\ last.reads = 1
    /\ last.before.exists /\ Age(last.before) > 0
    /\ last.data = GameYaml(last.name, 2)


\* ===================================================================
\* Properties of ListGames and fetchGameIndex (specification SpecList)
\* ===================================================================
IsIndexFetch == last.name = IndexKey
IsListReturn == last.op = "ListGames" /\ last.name = ""
WriteFailed == last.wr \in {"mkdirfail", "truncated"}
IsGame(g) == g # NoGame
Successes(trace) == SelectSeq(trace, IsGame)

\* C6: a cache write that fails after the remote answered 200 changes nothing
\* in what is returned: GetGame returns the definition parsed from the bytes
\* received, fetchGameIndex returns the names received and ListGames goes on
\* to resolve them, and the ListGames that returns after its loop returns no
\* error.
C6_WriteFailureNotSurfaced ==
    /\ IsGetGame /\ WriteFailed =>
        /\ last.ferr = "none"
        /\ last.data = last.resp.body
        /\ IF yamlUnmarshalGame(last.resp.body).ok
           THEN last.err = "none" /\ last.game = yamlUnmarshalGame(last.resp.body).game
           ELSE last.err = "parse"
    /\ IsIndexFetch /\ WriteFailed =>
        /\ last.err = "none"
        /\ listPc = "loop"
        /\ listIndex = yamlUnmarshalIndex(last.resp.body).index
    /\ IsListReturn => last.err = "none"
\* inside a ListGames whose index could not be cached (the file was left
\* truncated), a definition is resolved although its own cache write failed
C6_Witness ==
    /\ listPc = "loop"
    /\ files[CachePath(IndexKey)] = File(EmptyBytes, now)
    /\ IsGetGame /\ last.wr = "mkdirfail"
    /\ last.err = "none" /\ last.game = Game(last.name, 1)
    /\ listGames = <<last.game>>

\* C7: ListGames returns no error and exactly the definitions that GetGame
\* returned for the names of the index, in the order of the index; a name
\* whose GetGame failed is skipped and the names after it are still resolved.
C7_ListSkipsFailures ==
    /\ listPc = "loop" =>
        /\ Len(listTrace) <= Len(listIndex)
        /\ listGames = Successes(listTrace)
        /\ IsGetGame =>
            /\ Len(listTrace) > 0
            /\ last.name = listIndex[Len(listTrace)]
            /\ listTrace[Len(listTrace)] = last.game
            /\ last.err # "none" <=> last.game = NoGame
    /\ IsListReturn =>
        /\ last.err = "none"
        /\ Len(last.trace) = Len(last.index)
        /\ last.games = Successes(last.trace)
\* the index is a, b; GetGame("a") failed, and the definition of b is returned
C7_Witness ==
    /\ IsListReturn
    /\ last.index = <<"a", "ab">>
    /\ last.trace = <<NoGame, Game("ab", 1)>>
    /\ last.games = <<Game("ab", 1)>>

\* what a step may do to the cache file at path p
C9_Kept(p) ==
    files[p].exists /\ now - files[p].modTime >= cacheTTL =>
        /\ files'[p].exists
        /\ files[p].data # EmptyBytes => files'[p].data # EmptyBytes
        /\ files'[p] # files[p] =>
            /\ p = <<last'.dir, last'.name>>
            /\ last'.resp.status = 200 /\ last'.resp.err = "none"
            /\ files'[p] = File(IF p[2] = IndexKey
                                THEN jsonMarshal(yamlUnmarshalIndex(last'.resp.body).index)
                                ELSE last'.resp.body, now)
\* C9 as claimed: no step deletes or empties a cache file older than
\* cacheTTL, and such a file changes only when a request for its key was
\* answered 200, and then to the bytes that were fetched, stamped with the
\* time of the write.
C9_AsClaimed == [][\A p \in Paths : C9_Kept(p)]_vars

\* C10 as claimed: whenever the bytes retrieved for a definition or for the
\* index, from the cache file or from the network, do not parse, the call
\* returns the parse error.
C10_AsClaimed ==
    /\ IsGetGame /\ ~last.hit /\ last.ferr = "none" /\ ~yamlUnmarshalGame(last.data).ok =>
        last.err = "parse"
    /\ IsIndexFetch /\ last.resp.status = 200 /\ last.resp.err = "none"
           /\ ~yamlUnmarshalIndex(last.resp.body).ok =>
        last.err = "parse"
    /\ IsIndexFetch /\ last.reads > 0 /\ ~jsonUnmarshal(last.before.data).ok =>
        last.err = "parse"


\* C11 as claimed: fetchGameIndex treats the answers like fetchWithCache: a
\* 404 for the index makes ListGames fail whatever the cached index holds; a
\* transport failure or another status other than 200 is answered from a
\* cached index that holds names, and fails when no cached index exists.
C11_AsClaimed ==
    /\ IsIndexFetch /\ last.resp.status = 404 =>
        last.op = "ListGames" /\ last.err # "none"
    /\ IsIndexFetch /\ (last.resp.err = "transport" \/ last.resp.status = 500) =>
        /\ last.before.exists /\ Usable(last.before.data) =>
              last.err = "none" /\ listIndex = jsonUnmarshal(last.before.data).index
        /\ ~last.before.exists => last.op = "ListGames" /\ last.err # "none"

\* C12 as claimed: when the cached index is younger than cacheTTL and holds
\* what json.Marshal wrote, fetchGameIndex issues no request and ListGames
\* goes through the cached names.
C12_AsClaimed ==
    IsIndexFetch /\ last.before.exists /\ Age(last.before) < cacheTTL
                 /\ jsonUnmarshal(last.before.data).ok =>
        /\ last.net = 0
        /\ last.err = "none"
        /\ listIndex = jsonUnmarshal(last.before.data).index

\* C13 as claimed: a request that times out, before the response arrives
\* (client.Get fails) or while the body is read (io.ReadAll fails), is
\* answered from the cache file if there is one and fails otherwise.
C13_AsClaimed ==
    IsGetGame /\ last.resp.err \in {"transport", "readbody"} =>
        IF last.before.exists
        THEN last.ferr = "none" /\ last.data = last.before.data
        ELSE last.ferr # "none"


\* ===================================================================
\* Properties of two processes at once (specification SpecConc)
\* ===================================================================
\* the bodies a request for the definition of n can be answered with
CompletePayloads(n) == { r.body : r \in { x \in ConcResps(n) : x.status = 200 } }

\* C14 as claimed: what a process returns from the cache file is a complete
\* payload that a request was answered with, whatever another process that
\* resolves the same name is doing to the file.
C14_AsClaimed ==
    \A p \in Procs :
        procs[p].pc = "done" /\ procs[p].src = "cache" =>
            procs[p].data \in CompletePayloads(procs[p].name)

\* ===================================================================
\* Properties of the names (specification SpecNames)
\* ===================================================================
\* C15 as claimed: GetGame with a name that validateGameName refuses returns
\* an error before it looks at a file or issues a request, and no file
\* outside the cache directory is read or written.
C15_AsClaimed ==
    /\ last.op = "GetGameNamed" /\ validateGameName(Chars(last.name)) # "none" =>
          /\ last.err # "none"
          /\ last.stats = 0 /\ last.reads = 0 /\ last.net = 0 /\ ~last.wrote
    /\ last.op = "GetGameNamed" /\ last.stats + last.reads > 0 =>
          InsideCacheDir(last.path)
    /\ \A path \in NamePaths : pathFiles[path].exists => InsideCacheDir(path)


\* ===================================================================
\* Properties of the server commands (specification SpecDocker)
\* ===================================================================
\* In SpecDocker every step is a command or an act of the user, and last'
\* is the record of the step.

C16_Remove ==
    last'.op = "remove" =>
        /\ serverDirs' = serverDirs
        /\ images' = images
        /\ last'.err = "none" => containers' = Without(containers, last'.name)
C16_RunAgain ==
    last'.op = "run" /\ ~last'.dev /\ last'.err = "none"
                     /\ ~HasContainer(containers, last'.name) =>
        /\ HasContainer(containers', last'.name)
        /\ serverDirs'[last'.name].files = serverDirs[last'.name].files

\* C16 as claimed: remove <game> leaves the server directories and the
\* images as they are and, when it succeeds, removes the container
\* hostathome-<game> and no other; a run <game> that succeeds when no
\* container hostathome-<game> exists makes that container, over the files
\* the directory had.
C16_AsClaimed == [][C16_Remove /\ C16_RunAgain]_vars

C17_Step ==
    last'.op = "uninstall" =>
        /\ dockerVars' # dockerVars =>
              last'.asked /\ Scanln(last'.answer) \in {"yes", "y"}
        /\ last'.asked /\ Scanln(last'.answer) \notin {"yes", "y"} =>
              dockerVars' = dockerVars /\ last'.err = "none"

\* C17, amended: uninstall <game> changes the containers, the images or the
\* server directories only when the first word of the answer to its prompt
\* is yes or y; when it asked and the first word is anything else, or the
\* line is empty, all of them are left as they are and the command returns
\* no error.
C17_ConfirmedBeforeRemoval == [][C17_Step]_vars

\* an uninstall that was answered no or nothing while the container, the
\* image and the directory of the game existed
C17_Witness ==
    /\ last.op = "uninstall" /\ last.asked /\ last.err = "none"
    /\ Scanln(last.answer) \in {"", "no"}
    /\ HasContainer(containers, last.name)
    /\ Image(last.name, "latest") \in images
    /\ "configs/config.yaml" \in serverDirs[last.name].files

C17_ClaimedStep ==
    last'.op = "uninstall" /\ last'.asked /\ last'.answer \notin {<<"yes">>, <<"y">>} =>
        dockerVars' = dockerVars /\ last'.err = "none"

\* C17 as claimed: for every answer other than yes and y, the container, the
\* image and the data directory are left unchanged and uninstall returns no
\* error.
C17_AsClaimed == [][C17_ClaimedStep]_vars

C18_Dev ==
    last'.op = "run" /\ last'.dev =>
        /\ last'.net = 0 /\ last'.pulls = 0
        /\ files' = files /\ images' = images
        /\ ~HasContainer(containers, last'.name) /\ DevImage(last'.name) \notin images =>
              last'.err # "none" /\ containers' = containers

\* C18 as claimed: run <game> --dev issues no request to the registry and
\* pulls no image; when no container hostathome-<game> exists and the image
\* <game>-server:dev does not, it returns an error and the containers are
\* as they were.
C18_AsClaimed == [][C18_Dev]_vars

\* the directories the README lists under <game>-server
InstalledDirs == {"save", "mods", "data", "configs", "backup"}

\* C19 as claimed: after an install <game> that returned no error, save,
\* mods, data, configs and backup exist under ./<game>-server, and
\* configs/config.yaml does.
C19_AsClaimed ==
    last.op = "install" /\ last.err = "none" =>
        /\ InstalledDirs \subseteq serverDirs[last.name].dirs
        /\ "configs/config.yaml" \in serverDirs[last.name].files


\* ===================================================================
\* Properties of the update check (specification SpecVersion)
\* ===================================================================
\* C20 as claimed: two automatic checks that query the release endpoint are
\* at least checkInterval apart, whether the earlier one succeeded or
\* failed, and an invocation of update performs no automatic check.
C20_AsClaimed ==
    /\ Len(checks) = 2 => checks[1] - checks[2] >= checkInterval
    /\ last.op = "invoke" /\ last.name = "update" => ~last.auto

\* ------------------------------------------------------------------- C21
\* the containers named hostathome-<g>, and the state of the one there is
Named(cs, g) == SelectSeq(cs, LAMBDA c : c.game = g)
StateOf(cs, g) == IF HasContainer(cs, g) THEN Named(cs, g)[1].state ELSE "absent"
IsOp(op) == "fail" \in DOMAIN last /\ last.op = op

\* C21: at most one container named hostathome-<g> exists per game, and a
\* step of RunContainer(g) creates a container only when none named
\* hostathome-<g> exists, changes nothing and succeeds when that container
\* is running, and when it exists and is not running only starts it: no
\* image is pulled, no container is created, no other container changes.
C21_Run ==
    (last'.op = "RunContainer" /\ last'.name \in Names) =>
      LET g == last'.name IN
      /\ Len(containers') > Len(containers) => ~HasContainer(containers, g)
      /\ StateOf(containers, g) = "running" =>
           /\ containers' = containers
           /\ images' = images
           /\ last'.fail # "list" => last'.err = "none"
      /\ StateOf(containers, g) = "exited" =>
           /\ containers' \in {containers, SetState(containers, g, "running")}
           /\ last'.fail \notin {"list", "start"} =>
                 containers' = SetState(containers, g, "running")
           /\ images' = images
           /\ last'.pulls = 0
C21_AsClaimed ==
    /\ [](\A g \in Names : Len(Named(containers, g)) <= 1)
    /\ [][C21_Run]_vars

\* ------------------------------------------------------------------- C22
\* a name that is empty, longer than 63 characters, or has a character
\* outside [a-zA-Z0-9_-]
BadName(s) == s = <<>> \/ Len(s) > maxNameLen \/ \E i \in 1..Len(s) : s[i] \notin NameChars
NameOps == {"CreateServerDirs", "RunContainer", "StopContainer", "RestartContainer",
            "RemoveContainer"}

\* C22: an operation of package docker that takes a game name returns the
\* error "invalid game name" exactly when the name is empty, longer than 63
\* characters or has a character outside [a-zA-Z0-9_-], whatever call would
\* have failed, and then leaves the containers, the images and the
\* directories as they were; the validators of package docker and of
\* package registry accept the same names.
C22_Step ==
    (last'.op \in NameOps) =>
      /\ last'.err = "invalid" <=> BadName(Chars(last'.name))
      /\ last'.err = "invalid" => UNCHANGED <<containers, images, serverDirs>>
C22_SameNames ==
    \A n \in MoreNames :
      /\ ValidateGameName(Chars(n)) = "none" <=> validateGameName(Chars(n)) = "none"
      /\ ValidateGameName(Chars(n)) = "none" <=> ~BadName(Chars(n))
C22_InvalidNames == [](C22_SameNames) /\ [][C22_Step]_vars

\* RunContainer was given a name of 64 characters and a container engine
\* that cannot list: the error is that of the name
C22_Witness ==
    /\ IsOp("RunContainer")
    /\ last.name = LongName
    /\ last.fail = "list"
    /\ last.err = "invalid"

\* ------------------------------------------------------------------- C23
ContainerOps == {"RunContainer", "StopContainer", "RestartContainer", "RemoveContainer"}

\* C23: an operation on the container of game g leaves the container of
\* every other game h as it was (there or not, running or not), and does not
\* take the state of hostathome-h for that of hostathome-g: RunContainer(g)
\* that succeeded leaves hostathome-g running, and StopContainer,
\* RestartContainer and RemoveContainer succeed only when hostathome-g was
\* there.
C23_Step ==
    (last'.op \in ContainerOps /\ last'.name \in Names) =>
      LET g == last'.name IN
      /\ \A h \in Names \ {g} : StateOf(containers', h) = StateOf(containers, h)
      /\ (last'.op = "RunContainer" /\ last'.err = "none") =>
            StateOf(containers', g) = "running"
      /\ (last'.op # "RunContainer" /\ last'.err = "none") => HasContainer(containers, g)
C23_AsClaimed == [][C23_Step]_vars

\* ------------------------------------------------------------------- C24
\* C24: RemoveContainer(g) stops the container hostathome-<g> when it is
\* running and removes it afterwards (when the removal fails the container
\* is found stopped); when the stop fails the container stays as it was and
\* the error is that of the stop; a container that is not running is removed
\* and no stop is issued (a stop that would fail does not matter); when no
\* container hostathome-<g> exists the error is "not found" and nothing
\* changes.
C24_Step ==
    (last'.op = "RemoveContainer" /\ last'.name \in Names /\ last'.fail # "list") =>
      LET g == last'.name
          was == StateOf(containers, g)
      IN
      /\ was = "absent" => last'.err = "notfound" /\ containers' = containers
      /\ (was = "running" /\ last'.fail = "stop") =>
            last'.err = "stop" /\ containers' = containers
      /\ (was = "running" /\ last'.fail = "remove") =>
            last'.err = "remove" /\ containers' = SetState(containers, g, "exited")
      /\ (was = "exited" /\ last'.fail = "remove") =>
            last'.err = "remove" /\ containers' = containers
      /\ (was = "running" /\ last'.fail = "none") =>
            last'.err = "none" /\ containers' = Without(containers, g)
      /\ (was = "exited" /\ last'.fail \in {"none", "stop"}) =>
            last'.err = "none" /\ containers' = Without(containers, g)
C24_AsClaimed == [][C24_Step]_vars

\* ------------------------------------------------------------------- C25
PortRange == 1..65535
PortsOf(game) == {game.ports.player, game.ports.rcon,
                  game.internalPorts.player, game.internalPorts.rcon}
\* the protocol a binding of the pair is to have
Configured(proto) == IF proto = "" THEN "tcp" ELSE proto
IsPair(b, game, port) ==
    /\ b.internal = game.internalPorts[port]
    /\ b.host = game.ports[port]
    /\ b.proto = Configured(game.protocols[port])

\* C25: the portBindings RunContainer hands to ContainerCreate hold ports of
\* 1..65535 only; each binding is that of the player pair or of the RCON
\* pair, with its internal port, its external port and the protocol that is
\* configured for it, tcp when none is, and the pair has both ports > 0;
\* with a port above 65535 in the definition ContainerCreate is not called,
\* no container is created, and RunContainer fails when it has no container
\* to start.
C25_Step ==
    (last'.op = "RunContainer") =>
      LET game == last'.game
          create == last'.create
      IN
      /\ \A b \in create.bindings :
           /\ b.internal \in PortRange /\ b.host \in PortRange
           /\ \E port \in {"player", "rcon"} :
                /\ IsPair(b, game, port)
                /\ game.internalPorts[port] > 0 /\ game.ports[port] > 0
      /\ (\E p \in PortsOf(game) : p > 65535) =>
           /\ ~create.called
           /\ Len(containers') = Len(containers)
           /\ containers = <<>> => last'.err # "none"
      /\ Len(containers') > Len(containers) => create.called
C26_Step ==
    (last'.op = "CopyDefaultConfig") =>
      /\ last'.removals = last'.created
      /\ tempContainers' = tempContainers
C26_AsClaimed == [][C26_Step]_vars

\* ------------------------------------------------------------------- C27
Failed(err) == err \notin {"none", "skipped"}

\* C27: CopyDefaultConfig leaves a file of configs that exists with the
\* content it had and does not extract it; the call fails when the
\* extraction of config.yaml failed, and succeeds when config.yaml was there
\* or was extracted, whatever the extraction of mods.yaml came to.
C27_Step ==
    (last'.op = "CopyDefaultConfig" /\ last'.name = "a") =>
      /\ \A f \in ConfigNames :
           configFiles[f] # Absent => configFiles'[f] = configFiles[f]
      /\ configFiles["config.yaml"] # Absent => last'.configErr = "skipped"
      /\ configFiles["mods.yaml"] # Absent => last'.modsErr = "skipped"
      /\ Failed(last'.configErr) => last'.err = "extract"
      /\ (last'.err # "mkdir" /\ ~Failed(last'.configErr)) => last'.err = "none"
C27_NeverOverwrites == [][C27_Step]_vars

\* the user's config.yaml was there, mods.yaml was not and its extraction
\* failed: the call succeeded and config.yaml is the user's still
C27_Witness ==
    /\ "configErr" \in DOMAIN last
    /\ last.name = "a"
    /\ last.configErr = "skipped"
    /\ last.modsErr = "copy"
    /\ last.err = "none"
    /\ configFiles["config.yaml"] = "user"
    /\ configFiles["mods.yaml"] = Absent

\* ------------------------------------------------------------------- C28
Animating == { k \in DOMAIN goroutines : goroutines[k] # Exited }

\* C28: a call of Stop or StopWithMessage can always be made (it does not
\* wait), at most one animation goroutine is there at a time, and after the
\* last Stop has returned every animation goroutine exits in the end.
C28_AsClaimed ==
    /\ [](MayCall => \A op \in {"Stop", "StopWithMessage"} : ENABLED Stop(op))
    /\ [](Cardinality(Animating) <= 1)
    /\ (script.ended ~> (Animating = {}))

\* ------------------------------------------------------------------- C29
IsFollowed(call) == call.op = "GetGame" /\ call.proc = "cli"

\* C29: a GetGame(n) of the followed process that fails leaves gameCache as
\* it was, with no entry for n; a GetGame(n) that finds no entry for n goes
\* through fetchWithCache (it reads the cache file or asks the remote); and
\* after a failure a GetGame(n) that goes through fetchWithCache and
\* succeeds is possible.
C29_Step ==
    /\ (IsFollowed(last') /\ last'.err # "none") =>
          /\ gameCache' = gameCache
          /\ gameCache'[last'.name] = NoGame
    /\ (IsFollowed(last') /\ gameCache[last'.name] = NoGame) =>
          /\ ~last'.hit
          /\ last'.net + last'.reads >= 1
C29_CanSucceed ==
    (IsFollowed(last) /\ last.err # "none") =>
        ENABLED (GetGame(last.name) /\ last'.err = "none" /\ ~last'.hit
                 /\ gameCache'[last.name] # NoGame)
C29_FailureStoresNothing == [](C29_CanSucceed) /\ [][C29_Step]_vars

\* a GetGame that failed on bytes that do not parse, the map holding the
\* entry of another name and none for this one
C29_Witness ==
    /\ IsFollowed(last)
    /\ last.err = "parse"
    /\ gameCache[last.name] = NoGame
    /\ \E m \in Names \ {last.name} : gameCache[m] # NoGame

\* ------------------------------------------------------------------- C30
\* C30: a GetGame(n) that was answered 200 with bytes that do not parse
\* fails with the parse error, has written to the cache file of n when
\* there is a cache directory and, that write succeeding, leaves those
\* bytes in the file, stamped with the time of the call;
\* and a GetGame(n) of a process that has no entry for n and finds a cache
\* file younger than cacheTTL whose bytes do not parse fails with the parse
\* error without a request, whatever the remote would answer by then.
C30_PersistedBeforeParsed ==
    /\ (IsGetGame /\ ~last.hit /\ ByNetwork /\ last.resp.err = "none"
          /\ last.resp.status = 200 /\ ~yamlUnmarshalGame(last.resp.body).ok) =>
          /\ last.err = "parse"
          /\ last.dir # "" => last.wr # "nowrite"
          /\ (last.dir # "" /\ last.wr = "ok") =>
                files[<<last.dir, last.name>>] = File(last.resp.body, now)
    /\ (IsGetGame /\ ~last.hit /\ last.before.exists /\ Age(last.before) < cacheTTL
          /\ ~yamlUnmarshalGame(last.before.data).ok) =>
          /\ last.err = "parse"
          /\ last.net = 0
          /\ files[<<last.dir, last.name>>] = last.before

\* a cache file of age 30 minutes that holds bytes that do not parse made a
\* GetGame fail, and the remote was not asked
C30_Witness ==
    /\ IsGetGame /\ ~last.hit
    /\ last.before.exists /\ Age(last.before) > 0 /\ Age(last.before) < cacheTTL
    /\ last.before.data = Garbage
    /\ last.resp = NoResp
    /\ last.err = "parse"
    /\ last.net = 0

====
